---------------------------- MODULE Spec2Model ----------------------------
(***************************************************************************)
(* Model of VoiceNotesApp (src/index.tsx, first copy of the class, lines   *)
(* 1-1212): the note session, the persisted history under the storage key  *)
(* 'voiceNotesHistory', the capture controller and the three-stage         *)
(* enrichment pipeline (transcribe, polish, summarize).                    *)
(*                                                                         *)
(* Text is modelled as a sequence of words.  Between two neighbouring      *)
(* words one whitespace is implied; the token WS stands for a run of       *)
(* whitespace that is not between two words (leading, trailing or the      *)
(* whole text).  <<>> is the empty string.  Every concatenation the code   *)
(* performs puts whitespace between its parts, so \o models it.            *)
(***************************************************************************)
EXTENDS Integers, Sequences, FiniteSets, TLC

(***************************************************************************)
(* Bounds of the model.                                                    *)
(***************************************************************************)
\* milliseconds the clock advances after the construction of the app
MaxTicks == 1
\* captures started (startRecording calls) in one behaviour
MaxStarts == 2
\* pipeline runs (stop notifications that reach processAudio) in one behaviour
MaxRuns == 1
\* pipeline runs in a behaviour without user operations
MaxQuietRuns == 2
\* user operations on the session and the history in one behaviour
MaxOps == 2
\* user operations in a behaviour that starts more than one capture
MaxRaceOps == 1
\* notes an earlier session left, where it left fewer than the cap
MaxOldNotes == 3

(***************************************************************************)
(* Program constants.                                                      *)
(***************************************************************************)
\* saveNoteToHistory: history.slice(0, 50)
HistoryCap == 50

\* Date.now() at construction; the notes persisted by earlier sessions
\* carry the ids 1 .. HistoryCap, all earlier than this reading.
StartTime == HistoryCap + 1
MaxTime == StartTime + MaxTicks

WS == "_"

(***************************************************************************)
(* Strings.                                                                *)
(***************************************************************************)
\* JavaScript truthiness of a string: non-empty
Truthy(s) == Len(s) > 0

RECURSIVE TrimLeft(_)
TrimLeft(s) == IF s # <<>> /\ Head(s) = WS THEN TrimLeft(Tail(s)) ELSE s

RECURSIVE TrimRight(_)
TrimRight(s) ==
    IF s # <<>> /\ s[Len(s)] = WS THEN TrimRight(SubSeq(s, 1, Len(s) - 1)) ELSE s

\* String.prototype.trim
Trim(s) == TrimRight(TrimLeft(s))

\* marked.parse: whitespace-only markdown renders to the empty string,
\* anything else to markup around the trimmed text
MarkedParse(md) ==
    IF Trim(md) = <<>> THEN <<>> ELSE <<"<p>">> \o Trim(md) \o <<"</p>">>

\* text.split(/\s+/).length
SplitLength(text) ==
    IF text = <<>> THEN 1
    ELSE Cardinality({i \in 1..Len(text) : text[i] # WS})
         + (IF Head(text) = WS THEN 1 ELSE 0)
         + (IF text[Len(text)] = WS THEN 1 ELSE 0)

\* estimateTokens as it would be if it rounded down
estimateTokensFloor(text) == (4 * SplitLength(text)) \div 3

\* Math.ceil(words / 0.75) = ceil(4 * words / 3)
estimateTokens(text) == (4 * SplitLength(text) + 2) \div 3


(***************************************************************************)
(* Texts of the program and of the generative service.                     *)
(***************************************************************************)
\* getPolishedNote, empty transcription branch
NoTranscriptHtml == <<"<p><em>Keine Transkription zum Ueberarbeiten verfuegbar.</em></p>">>
\* getPolishedNote, empty result branch
emptyPolishMsg == <<"<p><em>Ueberarbeitung lieferte leeres Ergebnis. Roh-Transkript ist verfuegbar.</em></p>">>
\* getPolishedNote, catch branch
PolishErrorHtml == <<"<p><em>Fehler waehrend der Ueberarbeitung: error</em></p>">>
\* updateSummary, empty result branch: the text appended before the thought
IntegrationFailedMark == <<WS, "---", "**Neuer Gedanke (Integration fehlgeschlagen):**">>
\* updateSummary, catch branch
SummaryErrorMark ==
    <<WS, "---", "**Neuer Gedanke (Fehler waehrend der Aktualisierung der Zusammenfassung: error):**">>

\* the fixed instruction texts, as their words
TranscribeInstruction ==
    <<"Erstelle", "ein", "vollstaendiges,", "detailliertes", "Transkript",
      "dieses", "Audios", "auf", "Deutsch.">>
PolishInstruction == <<"Nimm", "dieses", "Roh-Transkript", "...", "Roh-Transkript:">>
SummaryHead == <<"Du", "bist", "ein", "KI-Assistent", "...", "Bestehende", "Zusammenfassung:">>
NoPriorSummary == <<"Noch", "keine", "vorherige", "Zusammenfassung.">>
SummaryMid == <<"Neu", "diktierter", "Gedanke", "(Markdown):">>
SummaryTail == <<"Aktualisierte", "Zusammenfassung", "(Markdown,", "Deutsch):">>

polishPrompt(rawTranscription) == PolishInstruction \o rawTranscription
summaryPrompt(summary, thought) ==
    SummaryHead \o (IF Truthy(summary) THEN summary ELSE NoPriorSummary)
        \o SummaryMid \o thought \o SummaryTail

\* what the service may answer to the call of capture k: nothing, whitespace
\* only, or a text of its own
TranscribeTexts(k) == {<<>>, <<WS>>, <<"Hallo", <<"Welt1", "Welt2", "Welt3", "Welt4">>[k]>>}
PolishTexts(k) == {<<>>, <<WS>>, <<"#", "Titel", <<"Punkt1", "Punkt2", "Punkt3", "Punkt4">>[k]>>}
SummaryTexts(k) == {<<>>, <<<<"Fazit1", "Fazit2", "Fazit3", "Fazit4">>[k]>>}

\* titles the user types
EditorPlaceholder == "Unbenannter Entwurf"
UnnamedNote == "Unbenannte Notiz"
TypedTitles == {"Einkauf"}

(***************************************************************************)
(* Notes and the persisted history.                                        *)
(***************************************************************************)
\* createNewNote: the note object it allocates
FreshNote(id, ts) ==
    [id |-> id, title |-> "", rawTranscription |-> <<>>,
     polishedNoteMarkdown |-> <<>>, polishedNoteHtml |-> <<>>,
     summary |-> <<>>, timestamp |-> ts, totalTokens |-> 0]

\* a note an earlier session committed: it has content, its summary and its
\* token count were stamped at the commit
OldNote(i) ==
    [id |-> i, title |-> "", rawTranscription |-> <<"alt">>,
     polishedNoteMarkdown |-> <<"#", "Alt">>,
     polishedNoteHtml |-> MarkedParse(<<"#", "Alt">>),
     summary |-> <<"Altfazit">>, timestamp |-> i, totalTokens |-> 40]

\* the history of n notes an earlier session left, most recent first
OldHistory(n) == [i \in 1..n |-> OldNote(n + 1 - i)]

\* JSON.stringify of a note array as it would be if the summary were left out
JSONstringifyWithoutSummary(notes) ==
    [i \in 1..Len(notes) |->
        <<notes[i].id, notes[i].title, notes[i].rawTranscription,
          notes[i].polishedNoteMarkdown, notes[i].polishedNoteHtml,
          <<>>, notes[i].timestamp, notes[i].totalTokens>>]

\* JSON.stringify of a note array: per note the values of its properties in
\* the order of the note literal
JSONstringify(notes) ==
    [i \in 1..Len(notes) |->
        <<notes[i].id, notes[i].title, notes[i].rawTranscription,
          notes[i].polishedNoteMarkdown, notes[i].polishedNoteHtml,
          notes[i].summary, notes[i].timestamp, notes[i].totalTokens>>]

\* JSON.parse of a serialized note array
JSONparse(text) ==
    [i \in 1..Len(text) |->
        [id |-> text[i][1], title |-> text[i][2], rawTranscription |-> text[i][3],
         polishedNoteMarkdown |-> text[i][4], polishedNoteHtml |-> text[i][5],
         summary |-> text[i][6], timestamp |-> text[i][7], totalTokens |-> text[i][8]]]

\* value under the storage key: absent ("missing"), a text JSON.parse rejects
\* ("corrupt"), a serialized array ("array"), or the serialized empty string
\* ("string"): a text JSON.parse accepts, whose value is no array, has length
\* 0 and no elements
Stored(notes) == [kind |-> "array", text |-> JSONstringify(notes)]

\* getHistory: the elements of the value it returns, [] for an absent and for
\* an unparsable text, the parsed value otherwise
getHistory(st) == IF st.kind = "array" THEN JSONparse(st.text) ELSE <<>>

\* the value getHistory returns is an array: it has findIndex, find, unshift
\* and splice.  On the parsed empty string a call of one of them raises a
\* TypeError
returnsArray(st) == st.kind # "string"

\* Array.prototype.findIndex over ids, 1-based; 0 when no entry matches
findIndex(history, id) ==
    IF \E i \in 1..Len(history) : history[i].id = id
    THEN CHOOSE i \in 1..Len(history) :
            /\ history[i].id = id
            /\ \A j \in 1..(i - 1) : history[j].id # id
    ELSE 0

\* history.slice(0, 50)
slice(history, n) == SubSeq(history, 1, IF Len(history) < n THEN Len(history) ELSE n)

\* saveNoteToHistory as it would be without the cut to the cap
saveNoteToHistoryUncapped(st, note, summary, tokens) ==
    LET history == getHistory(st)
        stamped == [note EXCEPT !.summary = summary, !.totalTokens = tokens]
        existingIndex == findIndex(history, note.id)
    IN Stored(IF existingIndex > 0
              THEN [history EXCEPT ![existingIndex] = stamped]
              ELSE <<stamped>> \o history)

\* saveNoteToHistory as it would be without the stamp of the live summary
saveNoteToHistoryUnstamped(st, note, summary, tokens) ==
    LET history == getHistory(st)
        stamped == [note EXCEPT !.totalTokens = tokens]
        existingIndex == findIndex(history, note.id)
        updated == IF existingIndex > 0
                   THEN [history EXCEPT ![existingIndex] = stamped]
                   ELSE <<stamped>> \o history
    IN Stored(slice(updated, HistoryCap))

\* saveNoteToHistory as it would be if a note committed again moved to the front
saveNoteToHistoryToFront(st, note, summary, tokens) ==
    LET history == getHistory(st)
        stamped == [note EXCEPT !.summary = summary, !.totalTokens = tokens]
        existingIndex == findIndex(history, note.id)
        others == IF existingIndex > 0
                  THEN SubSeq(history, 1, existingIndex - 1)
                          \o SubSeq(history, existingIndex + 1, Len(history))
                  ELSE history
    IN Stored(slice(<<stamped>> \o others, HistoryCap))

\* saveNoteToHistory as it would be if every commit added an entry
saveNoteToHistoryAdding(st, note, summary, tokens) ==
    LET history == getHistory(st)
        stamped == [note EXCEPT !.summary = summary, !.totalTokens = tokens]
    IN Stored(slice(<<stamped>> \o history, HistoryCap))

\* saveNoteToHistory: the note stamped with the live summary and counter,
\* replaced in place or put in front, the array cut to the cap and written
saveNoteToHistory(st, note, summary, tokens) ==
    LET history == getHistory(st)
        stamped == [note EXCEPT !.summary = summary, !.totalTokens = tokens]
        existingIndex == findIndex(history, note.id)
        updated == IF existingIndex > 0
                   THEN [history EXCEPT ![existingIndex] = stamped]
                   ELSE <<stamped>> \o history
    IN Stored(slice(updated, HistoryCap))

\* updateNoteTitle as it would be if it wrote the array back whether or not the
\* id was found
updateNoteTitleRewriting(st, noteId, newTitle) ==
    LET history == getHistory(st)
        noteIndex == findIndex(history, noteId)
    IN Stored(IF noteIndex > 0
              THEN [history EXCEPT ![noteIndex].title = newTitle]
              ELSE history)

\* updateNoteTitle: writes only when the id is found
updateNoteTitle(st, noteId, newTitle) ==
    LET history == getHistory(st)
        noteIndex == findIndex(history, noteId)
    IN IF noteIndex > 0
       THEN Stored([history EXCEPT ![noteIndex].title = newTitle])
       ELSE st

\* splice as it would be without the delete count: history.splice(noteIndex)
spliceToEnd(history, i) == SubSeq(history, 1, i - 1)

\* deleteNote: history.splice(noteIndex, 1)
splice(history, i) == SubSeq(history, 1, i - 1) \o SubSeq(history, i + 1, Len(history))

\* a note with a non-empty transcription or non-empty polished markdown
HoldsContent(note) == note.rawTranscription # <<>> \/ note.polishedNoteMarkdown # <<>>

\* hasContent as it would be if every outgoing note were committed
hasContentAlways(note) == TRUE

\* createNewNote, loadNoteFromHistory: the outgoing note holds content
hasContent(note) == Truthy(note.rawTranscription) \/ Truthy(note.polishedNoteMarkdown)


(***************************************************************************)
(* State.                                                                  *)
(***************************************************************************)
VARIABLES
    voiceNotesHistory,    \* localStorage['voiceNotesHistory']
    currentNote,          \* this.currentNote
    currentSummary,       \* this.currentSummary
    currentSessionTokens, \* this.currentSessionTokens
    editorTitle,          \* text content of the editor title element
    recordingStatus,      \* the status surface
    now,                  \* the last reading of Date.now()
    isRecording,          \* this.isRecording
    stream,               \* this.stream: 0 is null, k the stream of capture k
    mediaRecorder,        \* this.mediaRecorder: 0 is null, k the recorder of capture k
    audioChunks,          \* this.audioChunks: each chunk named by the recorder that delivered it
    audioContext,         \* this.audioContext: 0 is null, k the context made for capture k
    timerIntervalId,      \* this.timerIntervalId is set
    waveformDrawingId,    \* this.waveformDrawingId is set
    captures,             \* per startRecording call: its position, its stream, recorder, context
    runs,                 \* per capture: the pipeline run its stop notification started
    ops,                  \* user operations so far
    lastOp                \* the last user operation and what it found

session == <<currentNote, currentSummary, currentSessionTokens, editorTitle>>
controller == <<isRecording, stream, mediaRecorder, audioChunks, audioContext,
                timerIntervalId, waveformDrawingId, captures>>
vars == <<voiceNotesHistory, session, recordingStatus, now, controller, runs, ops, lastOp>>

history == getHistory(voiceNotesHistory)

\* the pipeline run of a capture before its stop notification: nothing read,
\* no call issued, no stage answered
NoRun == [pc |-> "none", blob |-> <<>>, calls |-> {},
          transcribed |-> "none", polished |-> "none", summarized |-> "none",
          transcriptionText |-> <<>>, polishedMarkdown |-> <<>>, prompt |-> <<>>]

NoOp == [op |-> "none", id |-> 0, dirty |-> FALSE, prev |-> "none", raised |-> FALSE]

\* setRecordingStatus: the message, and the number it quotes (0 when none)
Status(msg) == [msg |-> msg, count |-> 0]

\* lengths of the history an earlier session may have left
OldLengths == {0, MaxOldNotes}

\* what the constructor leaves beside the storage: a fresh note made by
\* createNewNote at the first clock reading, controller idle
Constructed ==
    /\ currentNote = FreshNote(StartTime, StartTime)
    /\ currentSummary = <<>>
    /\ currentSessionTokens = 0
    /\ editorTitle = EditorPlaceholder
    /\ recordingStatus = Status("Bereit zur Aufnahme")
    /\ now = StartTime
    /\ isRecording = FALSE
    /\ stream = 0
    /\ mediaRecorder = 0
    /\ audioChunks = <<>>
    /\ audioContext = 0
    /\ timerIntervalId = FALSE
    /\ waveformDrawingId = FALSE
    /\ captures = <<>>
    /\ runs = <<>>
    /\ ops = 0
    /\ lastOp = NoOp

\* the state the constructor leaves: the storage as an earlier session left
\* it, unreadable or holding a history shorter than the cap
Init ==
    /\ voiceNotesHistory \in
          {[kind |-> "missing", text |-> <<>>], [kind |-> "corrupt", text |-> <<>>],
           [kind |-> "string", text |-> <<>>]}
          \cup {Stored(OldHistory(n)) : n \in OldLengths}
    /\ Constructed

\* the state the constructor leaves over a history filled to the cap
FullInit ==
    /\ voiceNotesHistory = Stored(OldHistory(HistoryCap))
    /\ Constructed

(***************************************************************************)
(* Device resources, as the controller changes them.                       *)
(***************************************************************************)
\* stream.getTracks().forEach(track => track.stop())
stopTracks(c, s) ==
    IF s # 0 THEN [c EXCEPT ![s].track = "stopped", ![s].trackStops = @ + 1] ELSE c

\* if (this.audioContext.state !== 'closed') this.audioContext.close(), by a
\* caller that drops its reference to the context right after the call
closeContext(c, a) ==
    IF a # 0 /\ c[a].context # "closed"
    THEN [c EXCEPT ![a].context = "closed", ![a].closeCalls = @ + 1]
    ELSE c

\* what the state attribute of a context reads while the promise of its close()
\* is pending: it turns 'closed' within the call on some platforms and only
\* when the promise resolves on others
StatesWhileClosing == {"closing", "closed"}

\* await this.audioContext.close() in startRecording, the reference kept
\* across the await
closeContextAwaited(c, a, state) ==
    IF a # 0 /\ c[a].context # "closed"
    THEN [c EXCEPT ![a].context = state, ![a].closeCalls = @ + 1]
    ELSE c

\* the promise of close() resolves
closeResolved(c, a) ==
    IF a # 0 /\ c[a].context = "closing" THEN [c EXCEPT ![a].context = "closed"] ELSE c

\* mediaRecorder.stop(): the recorder goes inactive and will deliver its data
\* and then its stop notification
stopRecorder(c, r, byNewNote) ==
    [c EXCEPT ![r].recorder = "flushing", ![r].stoppedByNewNote = byNewNote]

\* setPanelContent(this.editorTitle, content): empty content shows the placeholder
setPanelContent(content) == IF content = "" THEN EditorPlaceholder ELSE content


(***************************************************************************)
(* NoteSession: the user's operations.                                     *)
(***************************************************************************)
\* the ids the user can act on: the first and the last entry of the list, the
\* current note, and an entry of a stale list that is no longer stored (0)
IdChoices ==
    {0, currentNote.id}
    \cup (IF history = <<>> THEN {} ELSE {history[1].id, history[Len(history)].id})

\* Date.now(): a reading is never earlier than the reading before it
Readings(last) == last..MaxTime

\* a user operation is within the bound of the behaviour
OpsLeft == ops < (IF Len(captures) > 1 THEN MaxRaceOps ELSE MaxOps)

\* the record of a user operation: its name, the id it was given (for
\* createNewNote the id of the outgoing note), whether the outgoing note held
\* content, the operation before it, and whether it ended in an error raised
\* to the event loop
Ghost(op, id) ==
    [op |-> op, id |-> id, dirty |-> HoldsContent(currentNote), prev |-> lastOp.op,
     raised |-> FALSE]

Raised(op, id) == [Ghost(op, id) EXCEPT !.raised = TRUE]

\* createNewNote as it would be if it abandoned the pipeline runs in progress
createNewNoteAborting(st, t, ts, status) ==
    /\ voiceNotesHistory' =
          IF hasContent(currentNote)
          THEN saveNoteToHistory(st, currentNote, currentSummary, currentSessionTokens)
          ELSE st
    /\ currentNote' = FreshNote(t, ts)
    /\ now' = ts
    /\ currentSummary' = <<>>
    /\ currentSessionTokens' = 0
    /\ editorTitle' = setPanelContent("")
    /\ recordingStatus' = status
    /\ captures' =
          LET stopped == IF /\ isRecording
                            /\ mediaRecorder # 0
                            /\ captures[mediaRecorder].recorder = "recording"
                         THEN stopRecorder(captures, mediaRecorder, TRUE)
                         ELSE captures
              closed == closeContext(stopped, audioContext)
          IN IF isRecording THEN stopTracks(closed, stream) ELSE closed
    /\ isRecording' = FALSE
    /\ stream' = IF isRecording THEN 0 ELSE stream
    /\ audioContext' = 0
    /\ timerIntervalId' = FALSE
    /\ waveformDrawingId' = FALSE
    /\ runs' = [k \in 1..Len(runs) |->
                   IF runs[k].pc \in {"none", "done"} THEN runs[k]
                   ELSE [runs[k] EXCEPT !.pc = "done"]]
    /\ UNCHANGED <<mediaRecorder, audioChunks>>

\* createNewNote, run on the storage value st, with t and ts its two clock
\* readings and status the message left on the status surface
createNewNote(st, t, ts, status) ==
    /\ voiceNotesHistory' =
          IF hasContent(currentNote)
          THEN saveNoteToHistory(st, currentNote, currentSummary, currentSessionTokens)
          ELSE st
    /\ currentNote' = FreshNote(t, ts)
    /\ now' = ts
    /\ currentSummary' = <<>>
    /\ currentSessionTokens' = 0
    /\ editorTitle' = setPanelContent("")
    /\ recordingStatus' = status
    /\ captures' =
          LET stopped == IF /\ isRecording
                            /\ mediaRecorder # 0
                            /\ captures[mediaRecorder].recorder = "recording"
                         THEN stopRecorder(captures, mediaRecorder, TRUE)
                         ELSE captures
              closed == closeContext(stopped, audioContext)
          IN IF isRecording THEN stopTracks(closed, stream) ELSE closed
    /\ isRecording' = FALSE
    /\ stream' = IF isRecording THEN 0 ELSE stream
    /\ audioContext' = 0
    /\ timerIntervalId' = FALSE
    /\ waveformDrawingId' = FALSE
    /\ UNCHANGED <<mediaRecorder, audioChunks, runs>>

\* the new-note button
CreateNewNote ==
    /\ OpsLeft
    /\ IF hasContent(currentNote) /\ ~returnsArray(voiceNotesHistory)
       THEN \* saveNoteToHistory stamps the note, then history.findIndex raises
            /\ currentNote' = [currentNote EXCEPT !.summary = currentSummary,
                                                  !.totalTokens = currentSessionTokens]
            /\ lastOp' = Raised("createNewNote", currentNote.id)
            /\ UNCHANGED <<voiceNotesHistory, currentSummary, currentSessionTokens,
                           editorTitle, recordingStatus, now, controller, runs>>
       ELSE /\ \E t \in Readings(now) : \E ts \in Readings(t) :
                  createNewNote(voiceNotesHistory, t, ts, Status("Bereit zur Aufnahme"))
            /\ lastOp' = Ghost("createNewNote", currentNote.id)
    /\ ops' = ops + 1

\* loadNoteFromHistory, for an id that is stored
\* the session counter as it would be if loading a note left it alone
restoredTokensNotRestored(note) == currentSessionTokens

\* this.currentSessionTokens = note.totalTokens || 0
restoredTokens(note) == IF note.totalTokens = 0 THEN 0 ELSE note.totalTokens

loadNoteFromHistory(noteId) ==
    LET note == history[findIndex(history, noteId)]
        currentEditorTitle == editorTitle
        retitle == currentEditorTitle # "" /\ currentEditorTitle # currentNote.title
        outgoing == IF retitle THEN [currentNote EXCEPT !.title = currentEditorTitle]
                    ELSE currentNote
        titled == IF retitle
                  THEN updateNoteTitle(voiceNotesHistory, currentNote.id, currentEditorTitle)
                  ELSE voiceNotesHistory
    IN /\ voiceNotesHistory' =
             IF hasContent(currentNote)
             THEN saveNoteToHistory(titled, outgoing, currentSummary, currentSessionTokens)
             ELSE voiceNotesHistory
       /\ currentNote' = note
       /\ currentSummary' = note.summary
       /\ currentSessionTokens' = restoredTokens(note)
       /\ editorTitle' = setPanelContent(note.title)
       /\ recordingStatus' = Status("Notiz geladen - Bereit zur Aufnahme")

\* LoadNote as it would be if loading a note ended the capture in progress
\* and emptied the chunk buffer
LoadNoteStopping ==
    /\ OpsLeft
    /\ \E noteId \in IdChoices :
          /\ IF findIndex(history, noteId) > 0
             THEN loadNoteFromHistory(noteId)
             ELSE UNCHANGED <<voiceNotesHistory, session, recordingStatus>>
          /\ lastOp' = IF returnsArray(voiceNotesHistory)
                       THEN Ghost("loadNote", noteId)
                       ELSE Raised("loadNote", noteId)
    /\ ops' = ops + 1
    /\ isRecording' = FALSE
    /\ audioChunks' = <<>>
    /\ UNCHANGED <<now, stream, mediaRecorder, audioContext, timerIntervalId,
                   waveformDrawingId, captures, runs>>

\* a click on an entry of the history list
LoadNote ==
    /\ OpsLeft
    /\ \E noteId \in IdChoices :
          /\ IF findIndex(history, noteId) > 0
             THEN loadNoteFromHistory(noteId)
             ELSE UNCHANGED <<voiceNotesHistory, session, recordingStatus>>
          /\ lastOp' = IF returnsArray(voiceNotesHistory)
                       THEN Ghost("loadNote", noteId)
                       ELSE Raised("loadNote", noteId)   \* history.find raises
    /\ ops' = ops + 1
    /\ UNCHANGED <<now, controller, runs>>

\* the delete button of an entry; confirmDelete is the answer to the
\* confirmation dialog
DeleteNote ==
    /\ OpsLeft
    /\ \E noteId \in IdChoices, confirmDelete \in BOOLEAN :
          LET noteIndex == findIndex(history, noteId)
              spliced == splice(history, noteIndex)
              deleted == [msg |-> "Notiz geloescht. Notizen verbleiben:",
                          count |-> Len(spliced)]
          IN IF ~confirmDelete
             THEN /\ UNCHANGED <<voiceNotesHistory, session, recordingStatus, now,
                                 controller, runs>>
                  /\ lastOp' = Ghost("deleteNoteDeclined", 0)   \* the same for every id
             ELSE
             /\ IF noteIndex > 0
                THEN IF currentNote.id = noteId
                     THEN \E t \in Readings(now) : \E ts \in Readings(t) :
                             createNewNote(Stored(spliced), t, ts, deleted)
                     ELSE /\ voiceNotesHistory' = Stored(spliced)
                          /\ recordingStatus' = deleted
                          /\ UNCHANGED <<session, now, controller, runs>>
                ELSE UNCHANGED <<voiceNotesHistory, session, recordingStatus, now,
                                 controller, runs>>
             /\ lastOp' = IF returnsArray(voiceNotesHistory)
                          THEN Ghost("deleteNote", noteId)
                          ELSE Raised("deleteNote", noteId)   \* history.findIndex raises
    /\ ops' = ops + 1

\* the editor title loses focus with a title typed into it
EditorTitleBlur ==
    /\ OpsLeft
    /\ \E newTitle \in TypedTitles :
          /\ currentNote' = [currentNote EXCEPT !.title = newTitle]
          /\ voiceNotesHistory' = updateNoteTitle(voiceNotesHistory, currentNote.id, newTitle)
          /\ editorTitle' = newTitle
    /\ ops' = ops + 1
    /\ lastOp' = IF returnsArray(voiceNotesHistory)
                 THEN Ghost("editorTitleBlur", currentNote.id)
                 ELSE Raised("editorTitleBlur", currentNote.id)   \* in updateNoteTitle
    /\ UNCHANGED <<currentSummary, currentSessionTokens, recordingStatus, now,
                   controller, runs>>

\* editNoteTitle, saveEdit: the title input of a history entry is committed
SaveEdit ==
    /\ OpsLeft
    /\ \E noteId \in IdChoices, value \in TypedTitles \cup {""} :
          LET newTitle == IF value = "" THEN UnnamedNote ELSE value
          IN IF returnsArray(voiceNotesHistory)
             THEN /\ voiceNotesHistory' = updateNoteTitle(voiceNotesHistory, noteId, newTitle)
                  /\ IF currentNote.id = noteId
                     THEN /\ currentNote' = [currentNote EXCEPT !.title = newTitle]
                          /\ editorTitle' = setPanelContent(newTitle)
                     ELSE UNCHANGED <<currentNote, editorTitle>>
                  /\ lastOp' = Ghost("saveEdit", noteId)
             ELSE \* updateNoteTitle raises before the current note is retitled
                  /\ UNCHANGED <<voiceNotesHistory, currentNote, editorTitle>>
                  /\ lastOp' = Raised("saveEdit", noteId)
    /\ ops' = ops + 1
    /\ UNCHANGED <<currentSummary, currentSessionTokens, recordingStatus, now,
                   controller, runs>>

\* no capture and no pipeline run of the page is in progress
PageAtRest ==
    /\ ~isRecording
    /\ \A k \in 1..Len(captures) :
          /\ captures[k].pc \in {"started", "failed"}
          /\ captures[k].recorder \in {"none", "inactive"}
          /\ captures[k].track # "live"
          /\ captures[k].context # "running"
          /\ runs[k].pc \in {"none", "done"}

\* the page, at rest, is loaded again: a new VoiceNotesApp is constructed over
\* the same storage.  loadHistory renders the stored history, createNewNote
\* finds no current note to commit.  The finished captures and runs of the
\* page before stay on record; nothing of them can act any more
Restart ==
    /\ OpsLeft
    /\ PageAtRest
    /\ \E t \in Readings(now) : \E ts \in Readings(t) :
          /\ currentNote' = FreshNote(t, ts)
          /\ now' = ts
          /\ UNCHANGED voiceNotesHistory
    /\ currentSummary' = <<>>
    /\ currentSessionTokens' = 0
    /\ editorTitle' = EditorPlaceholder
    /\ recordingStatus' = Status("Bereit zur Aufnahme")
    /\ isRecording' = FALSE
    /\ stream' = 0
    /\ mediaRecorder' = 0
    /\ audioChunks' = <<>>
    /\ audioContext' = 0
    /\ timerIntervalId' = FALSE
    /\ waveformDrawingId' = FALSE
    /\ UNCHANGED <<captures, runs>>
    /\ ops' = ops + 1
    /\ lastOp' = Ghost("restart", currentNote.id)

(***************************************************************************)
(* AudioCaptureController.                                                 *)
(***************************************************************************)
\* a startRecording call that has reached position pc; trackStops and
\* closeCalls count the calls of stop() on the tracks of its stream and of
\* close() on its analysis context, caught is the error of its last rejected
\* request
NewCapture(pc) ==
    [pc |-> pc, track |-> "none", recorder |-> "none", stoppedByNewNote |-> FALSE,
     trackStops |-> 0, context |-> "none", closeCalls |-> 0, caught |-> "none"]

\* the constraints of the first getUserMedia request and of the retry
DefaultConstraints == "audio"
ProcessingOff == "echoCancellation, noiseSuppression, autoGainControl off"

\* await navigator.mediaDevices.getUserMedia(constraints), issued by call k:
\* the call waits at "gum1" for the answer to its first request and at
\* "gum2" for the answer to its retry
getUserMedia(c, k, constraints) ==
    [c EXCEPT ![k].pc = IF constraints = DefaultConstraints THEN "gum1" ELSE "gum2"]

\* toggleRecording as it would be if the button always started a capture
toggleStartsAlways(recording) == TRUE

\* toggleRecording: the record button starts a capture when none is recording
\* and stops the capture otherwise
toggleStarts(recording) == ~recording

\* names of the errors getUserMedia rejects with
GumErrors == {"NotAllowedError", "NotFoundError", "NotReadableError"}

startErrorStatus(errorName) ==
    IF errorName = "NotAllowedError"
    THEN Status("Mikrofonberechtigung verweigert.")
    ELSE IF errorName = "NotFoundError"
    THEN Status("Kein Mikrofon gefunden.")
    ELSE Status("Zugriff auf Mikrofon nicht moeglich.")

\* toggleRecording while not recording: startRecording up to its first await
StartRecording ==
    /\ toggleStarts(isRecording)
    /\ Len(captures) < MaxStarts
    /\ Len(captures) > 0 => ops <= MaxRaceOps
    /\ LET released == stopTracks(captures, stream)
           closing == audioContext # 0 /\ captures[audioContext].context # "closed"
           k == Len(captures) + 1
       IN /\ \E state \in StatesWhileClosing :
                LET called == Append(closeContextAwaited(released, audioContext, state),
                                     NewCapture(IF closing THEN "closing" ELSE "called"))
                IN captures' = IF closing THEN called
                               ELSE getUserMedia(called, k, DefaultConstraints)
          /\ recordingStatus' =
                IF closing THEN recordingStatus
                ELSE Status("Mikrofonzugriff wird angefordert...")
    /\ audioChunks' = <<>>
    /\ stream' = 0
    /\ runs' = Append(runs, NoRun)
    /\ UNCHANGED <<voiceNotesHistory, session, now, isRecording, mediaRecorder,
                   audioContext, timerIntervalId, waveformDrawingId, ops, lastOp>>

\* startRecording resumes after await audioContext.close()
ContextClosed(k) ==
    /\ captures[k].pc = "closing"
    /\ audioContext' = 0
    /\ recordingStatus' = Status("Mikrofonzugriff wird angefordert...")
    /\ captures' = getUserMedia(closeResolved(captures, audioContext), k,
                                DefaultConstraints)
    /\ UNCHANGED <<voiceNotesHistory, session, now, isRecording, stream, mediaRecorder,
                   audioChunks, timerIntervalId, waveformDrawingId, runs, ops, lastOp>>

\* getUserMedia resolves (first request or retry): recorder made and started,
\* startLiveDisplay
GumResolve(k) ==
    /\ captures[k].pc \in {"gum1", "gum2"}
    /\ stream' = k
    /\ mediaRecorder' = k
    /\ isRecording' = TRUE
    /\ audioContext' = IF audioContext = 0 THEN k ELSE audioContext
    /\ captures' = [captures EXCEPT
          ![k] = [@ EXCEPT !.pc = "started", !.track = "live", !.recorder = "recording",
                            !.context = IF audioContext = 0 THEN "running" ELSE "none",
                            !.caught = "none"]]
    /\ timerIntervalId' = TRUE
    /\ waveformDrawingId' = TRUE
    /\ UNCHANGED <<voiceNotesHistory, session, recordingStatus, now, audioChunks, runs,
                   ops, lastOp>>

\* GumReject as it would be without the retry: the first rejection goes to the
\* catch block
GumRejectNoRetry(k) ==
    /\ captures[k].pc \in {"gum1", "gum2"}
    /\ \E errorName \in GumErrors : recordingStatus' = startErrorStatus(errorName)
    /\ isRecording' = FALSE
    /\ captures' = [closeContext(stopTracks(captures, stream), audioContext)
                       EXCEPT ![k].pc = "failed"]
    /\ stream' = 0
    /\ audioContext' = 0
    /\ timerIntervalId' = FALSE
    /\ waveformDrawingId' = FALSE
    /\ UNCHANGED <<voiceNotesHistory, session, now, mediaRecorder, audioChunks, runs,
                   ops, lastOp>>

\* GumReject as it would be if every rejected request were followed by a
\* further request
GumRejectRetrying(k) ==
    /\ captures[k].pc \in {"gum1", "gum2"}
    /\ \E err \in GumErrors :
          captures' = [getUserMedia(captures, k, ProcessingOff) EXCEPT ![k].caught = err]
    /\ UNCHANGED <<recordingStatus, isRecording, stream, audioContext,
                   timerIntervalId, waveformDrawingId>>
    /\ UNCHANGED <<voiceNotesHistory, session, now, mediaRecorder, audioChunks, runs,
                   ops, lastOp>>

\* getUserMedia rejects: the first request, whatever the error err caught, is
\* retried with the processing constraints off; a rejected retry goes to the
\* outer catch block
GumReject(k) ==
    /\ captures[k].pc \in {"gum1", "gum2"}
    /\ IF captures[k].pc = "gum1"
       THEN /\ \E err \in GumErrors :
                  captures' = [getUserMedia(captures, k, ProcessingOff)
                                  EXCEPT ![k].caught = err]
            /\ UNCHANGED <<recordingStatus, isRecording, stream, audioContext,
                           timerIntervalId, waveformDrawingId>>
       ELSE /\ \E errorName \in GumErrors :
                  /\ recordingStatus' = startErrorStatus(errorName)
                  /\ captures' = [closeContext(stopTracks(captures, stream), audioContext)
                                     EXCEPT ![k].pc = "failed", ![k].caught = errorName]
            /\ isRecording' = FALSE
            /\ stream' = 0
            /\ audioContext' = 0
            /\ timerIntervalId' = FALSE
            /\ waveformDrawingId' = FALSE
    /\ UNCHANGED <<voiceNotesHistory, session, now, mediaRecorder, audioChunks, runs,
                   ops, lastOp>>

\* toggleRecording while recording: stopRecording
StopRecording ==
    /\ ~toggleStarts(isRecording)
    /\ IF mediaRecorder # 0
       THEN /\ IF captures[mediaRecorder].recorder = "recording"
               THEN /\ captures' = stopRecorder(captures, mediaRecorder, FALSE)
                    /\ UNCHANGED <<audioContext, timerIntervalId, waveformDrawingId>>
               ELSE \* stop() throws on an inactive recorder: stopLiveDisplay
                    /\ captures' = closeContext(captures, audioContext)
                    /\ audioContext' = 0
                    /\ timerIntervalId' = FALSE
                    /\ waveformDrawingId' = FALSE
            /\ isRecording' = FALSE
            /\ recordingStatus' = Status("Audio wird verarbeitet...")
       ELSE UNCHANGED <<captures, audioContext, timerIntervalId, waveformDrawingId,
                        isRecording, recordingStatus>>
    /\ UNCHANGED <<voiceNotesHistory, session, now, stream, mediaRecorder, audioChunks,
                   runs, ops, lastOp>>

\* mediaRecorder.ondataavailable of recorder k: a stopped recorder delivers what
\* it gathered; empty data is not buffered
DataAvailable(k) ==
    /\ captures[k].recorder = "flushing"
    /\ \E size \in {0, 1} :
          audioChunks' = IF size > 0 THEN Append(audioChunks, k) ELSE audioChunks
    /\ captures' = [captures EXCEPT ![k].recorder = "stopping"]
    /\ UNCHANGED <<voiceNotesHistory, session, recordingStatus, now, isRecording, stream,
                   mediaRecorder, audioContext, timerIntervalId, waveformDrawingId,
                   runs, ops, lastOp>>

\* the recorder of capture k is still recording when the tracks of its stream
\* have been stopped: it goes inactive by itself, delivers its data and then
\* its stop notification
TracksEnded(k) ==
    /\ captures[k].recorder = "recording"
    /\ captures[k].track = "stopped"
    /\ captures' = [captures EXCEPT ![k].recorder = "flushing"]
    /\ UNCHANGED <<voiceNotesHistory, session, recordingStatus, now, isRecording, stream,
                   mediaRecorder, audioChunks, audioContext, timerIntervalId,
                   waveformDrawingId, runs, ops, lastOp>>

\* OnStop as it would be if the blob were processed whatever was buffered
OnStopAlwaysProcessing(k) ==
    /\ captures[k].recorder = "stopping"
    /\ Cardinality({r \in 1..Len(runs) : runs[r].pc # "none"}) < MaxRuns
    /\ captures' = [stopTracks(closeContext(captures, audioContext), stream)
                       EXCEPT ![k].recorder = "inactive"]
    /\ audioContext' = 0
    /\ timerIntervalId' = FALSE
    /\ waveformDrawingId' = FALSE
    /\ stream' = 0
    /\ runs' = [runs EXCEPT ![k].pc = "reading", ![k].blob = audioChunks]
    /\ recordingStatus' = Status("Audio wird konvertiert...")
    /\ UNCHANGED <<voiceNotesHistory, session, now, isRecording, mediaRecorder,
                   audioChunks, ops, lastOp>>

\* mediaRecorder.onstop of recorder k: stopLiveDisplay, then processAudio up to
\* its first await when chunks are buffered, then the stream is released; in a
\* behaviour of at most maxRuns pipeline runs
OnStopWithin(k, maxRuns) ==
    /\ captures[k].recorder = "stopping"
    /\ Len(audioChunks) > 0 => Cardinality({r \in 1..Len(runs) : runs[r].pc # "none"}) < maxRuns
    /\ captures' = [stopTracks(closeContext(captures, audioContext), stream)
                       EXCEPT ![k].recorder = "inactive"]
    /\ audioContext' = 0
    /\ timerIntervalId' = FALSE
    /\ waveformDrawingId' = FALSE
    /\ stream' = 0
    /\ IF Len(audioChunks) > 0
       THEN /\ runs' = [runs EXCEPT ![k].pc = "reading", ![k].blob = audioChunks]
            /\ recordingStatus' = Status("Audio wird konvertiert...")
       ELSE /\ recordingStatus' = Status("Keine Audiodaten erfasst. Bitte erneut versuchen.")
            /\ UNCHANGED runs
    /\ UNCHANGED <<voiceNotesHistory, session, now, isRecording, mediaRecorder,
                   audioChunks, ops, lastOp>>

OnStop(k) == OnStopWithin(k, MaxRuns)


(***************************************************************************)
(* EnrichmentPipeline.  A run is at "reading" while the FileReader works,  *)
(* at "transcribing", "polishing", "summarizing" while that stage's call   *)
(* to the generative service is in flight, and at "done" afterwards.       *)
(***************************************************************************)
\* addTokenUsage as it would be if it stored the usage of the last call only
addTokenUsageLastCall(inputTokens, outputTokens) == inputTokens + outputTokens

\* addTokenUsage as it would be if only the request were counted
addTokenUsageRequestOnly(inputTokens, outputTokens) == currentSessionTokens + inputTokens

\* addTokenUsage: the new value of the session counter
addTokenUsage(inputTokens, outputTokens) == currentSessionTokens + inputTokens + outputTokens

\* getTranscription and getPolishedNote: a transcription that is not empty and
\* not whitespace only goes on to the polish call
polishCalledAlways(transcriptionText) == TRUE
polishCalled(transcriptionText) ==
    Truthy(transcriptionText) /\ Trim(transcriptionText) # <<>>

\* getPolishedNote: only a polish result that is not empty goes on to
\* updateSummary and its summarize call
summarizeCalledAlways(polishedMarkdown) == TRUE
summarizeCalled(polishedMarkdown) == Truthy(polishedMarkdown)

\* the fields getTranscription (and getPolishedNote's first branch) store for a
\* transcribe result: nothing for an empty one, the text otherwise, with the
\* "no transcription" placeholder when it is whitespace only
transcribedFields(note, transcriptionText) ==
    IF ~Truthy(transcriptionText) THEN note
    ELSE IF Trim(transcriptionText) = <<>>
    THEN [note EXCEPT !.rawTranscription = transcriptionText,
                      !.polishedNoteMarkdown = <<>>,
                      !.polishedNoteHtml = NoTranscriptHtml]
    ELSE [note EXCEPT !.rawTranscription = transcriptionText]

transcribeStatus(transcriptionText) ==
    IF ~Truthy(transcriptionText) THEN Status("Transkription fehlgeschlagen oder leer.")
    ELSE IF Trim(transcriptionText) = <<>>
    THEN Status("Keine Transkription zum Ueberarbeiten vorhanden.")
    ELSE Status("Notiz wird ueberarbeitet...")

\* polishedFields as it would be if a failed polish reset the whole note text
polishedFieldsErasing(note, polishedMarkdown) ==
    IF Truthy(polishedMarkdown)
    THEN [note EXCEPT !.polishedNoteMarkdown = polishedMarkdown,
                      !.polishedNoteHtml = MarkedParse(polishedMarkdown)]
    ELSE [note EXCEPT !.rawTranscription = <<>>,
                      !.polishedNoteMarkdown = <<>>,
                      !.polishedNoteHtml = emptyPolishMsg]

\* polishedFields as it would be if only the rendering were stored
polishedFieldsHtmlOnly(note, polishedMarkdown) ==
    IF Truthy(polishedMarkdown)
    THEN [note EXCEPT !.polishedNoteHtml = MarkedParse(polishedMarkdown)]
    ELSE [note EXCEPT !.polishedNoteMarkdown = <<>>,
                      !.polishedNoteHtml = emptyPolishMsg]

\* the polished fields getPolishedNote stores for a polish result
polishedFields(note, polishedMarkdown) ==
    IF Truthy(polishedMarkdown)
    THEN [note EXCEPT !.polishedNoteMarkdown = polishedMarkdown,
                      !.polishedNoteHtml = MarkedParse(polishedMarkdown)]
    ELSE [note EXCEPT !.polishedNoteMarkdown = <<>>,
                      !.polishedNoteHtml = emptyPolishMsg]

\* integrate as it would be if a failed integration kept only the new thought
integrateDropping(summary, updatedSummaryText, thought) ==
    IF Truthy(updatedSummaryText)
    THEN updatedSummaryText
    ELSE IntegrationFailedMark \o thought

\* integrate as it would be if the answer of the service were not taken over
integrateIgnoring(summary, updatedSummaryText, thought) == summary

\* updateSummary: the running summary after a summarize result
integrate(summary, updatedSummaryText, thought) ==
    IF Truthy(updatedSummaryText)
    THEN updatedSummaryText
    ELSE summary \o IntegrationFailedMark \o thought

\* updateSummary, catch block
appendOnError(summary, thought) == summary \o SummaryErrorMark \o thought

\* processAudio resumes when the FileReader has finished: getTranscription
\* issues the transcribe call, or the read failed
ReadDone(k) ==
    /\ runs[k].pc = "reading"
    /\ \E ok \in BOOLEAN :
          IF ok
          THEN /\ runs' = [runs EXCEPT ![k].pc = "transcribing",
                                       ![k].calls = @ \cup {"transcribe"}]
               /\ recordingStatus' = Status("Transkription wird abgerufen...")
          ELSE /\ runs' = [runs EXCEPT ![k].pc = "done"]
               /\ recordingStatus' =
                     Status("Fehler bei der Audioverarbeitung. Bitte erneut versuchen.")
    /\ UNCHANGED <<voiceNotesHistory, session, now, controller, ops, lastOp>>

\* the transcribe call returns a text: getTranscription stores it and
\* getPolishedNote runs up to its polish call
TranscribeReturn(k) ==
    /\ runs[k].pc = "transcribing"
    /\ \E transcriptionText \in TranscribeTexts(k) :
          LET tokens == addTokenUsage(estimateTokens(TranscribeInstruction),
                                      estimateTokens(transcriptionText))
              counted == [currentNote EXCEPT !.totalTokens = tokens]
              proceeds == polishCalled(transcriptionText)
          IN /\ currentSessionTokens' = tokens
             /\ currentNote' = transcribedFields(counted, transcriptionText)
             /\ recordingStatus' = transcribeStatus(transcriptionText)
             /\ runs' = [runs EXCEPT
                   ![k].pc = IF proceeds THEN "polishing" ELSE "done",
                   ![k].transcribed = IF Truthy(transcriptionText) THEN "text" ELSE "empty",
                   ![k].transcriptionText = transcriptionText,
                   ![k].calls = IF proceeds THEN @ \cup {"polish"} ELSE @]
    /\ UNCHANGED <<voiceNotesHistory, currentSummary, editorTitle, now, controller, ops,
                   lastOp>>

\* TranscribeThrow as it would be if the run went on to the polish call
TranscribeThrowContinuing(k) ==
    /\ runs[k].pc = "transcribing"
    /\ runs' = [runs EXCEPT ![k].pc = "polishing", ![k].transcribed = "throw",
                            ![k].calls = @ \cup {"polish"}]
    /\ recordingStatus' =
          Status("Fehler beim Abrufen der Transkription. Bitte erneut versuchen.")
    /\ UNCHANGED <<voiceNotesHistory, session, now, controller, ops, lastOp>>

\* TranscribeThrow as it would be if the failed call were issued again
TranscribeThrowRetrying(k) ==
    /\ runs[k].pc = "transcribing"
    /\ runs' = [runs EXCEPT ![k].transcribed = "throw"]
    /\ recordingStatus' =
          Status("Fehler beim Abrufen der Transkription. Bitte erneut versuchen.")
    /\ UNCHANGED <<voiceNotesHistory, session, now, controller, ops, lastOp>>

\* the transcribe call throws: getTranscription's catch block
TranscribeThrow(k) ==
    /\ runs[k].pc = "transcribing"
    /\ runs' = [runs EXCEPT ![k].pc = "done", ![k].transcribed = "throw"]
    /\ recordingStatus' =
          Status("Fehler beim Abrufen der Transkription. Bitte erneut versuchen.")
    /\ UNCHANGED <<voiceNotesHistory, session, now, controller, ops, lastOp>>

\* the polish call returns a text: getPolishedNote stores it and updateSummary
\* runs up to its summarize call, or the result is empty
PolishReturn(k) ==
    /\ runs[k].pc = "polishing"
    /\ \E polishedMarkdown \in PolishTexts(k) :
          LET tokens == addTokenUsage(
                            estimateTokens(polishPrompt(runs[k].transcriptionText)),
                            estimateTokens(polishedMarkdown))
              counted == [currentNote EXCEPT !.totalTokens = tokens]
          IN /\ currentSessionTokens' = tokens
             /\ currentNote' = polishedFields(counted, polishedMarkdown)
             /\ IF summarizeCalled(polishedMarkdown)
                THEN /\ recordingStatus' = Status("Zusammenfassung wird aktualisiert...")
                     /\ runs' = [runs EXCEPT
                           ![k].pc = "summarizing",
                           ![k].polished = IF Truthy(polishedMarkdown) THEN "text" ELSE "empty",
                           ![k].polishedMarkdown = polishedMarkdown,
                           ![k].prompt = summaryPrompt(currentSummary, polishedMarkdown),
                           ![k].calls = @ \cup {"summarize"}]
                ELSE /\ recordingStatus' = Status("Ueberarbeitung fehlgeschlagen oder leer.")
                     /\ runs' = [runs EXCEPT ![k].pc = "done", ![k].polished = "empty"]
    /\ UNCHANGED <<voiceNotesHistory, currentSummary, editorTitle, now, controller, ops,
                   lastOp>>

\* PolishThrow as it would be if the pipeline wrote the note through to the
\* history
PolishThrowSaving(k) ==
    /\ runs[k].pc = "polishing"
    /\ currentNote' = [currentNote EXCEPT !.polishedNoteMarkdown = <<>>,
                                          !.polishedNoteHtml = PolishErrorHtml]
    /\ runs' = [runs EXCEPT ![k].pc = "done", ![k].polished = "throw"]
    /\ recordingStatus' =
          Status("Fehler beim Ueberarbeiten der Notiz. Bitte erneut versuchen.")
    /\ voiceNotesHistory' =
          saveNoteToHistory(voiceNotesHistory, currentNote', currentSummary,
                            currentSessionTokens)
    /\ UNCHANGED <<currentSummary, currentSessionTokens, editorTitle,
                   now, controller, ops, lastOp>>

\* the polish call throws: getPolishedNote's catch block
PolishThrow(k) ==
    /\ runs[k].pc = "polishing"
    /\ currentNote' = [currentNote EXCEPT !.polishedNoteMarkdown = <<>>,
                                          !.polishedNoteHtml = PolishErrorHtml]
    /\ runs' = [runs EXCEPT ![k].pc = "done", ![k].polished = "throw"]
    /\ recordingStatus' =
          Status("Fehler beim Ueberarbeiten der Notiz. Bitte erneut versuchen.")
    /\ UNCHANGED <<voiceNotesHistory, currentSummary, currentSessionTokens, editorTitle,
                   now, controller, ops, lastOp>>

\* the status updateSummary sets for an empty result and in its catch block:
\* both are replaced, before any other handler runs, by the status
\* getPolishedNote sets next
SummaryEmptyStatus ==
    Status("Aktualisierung der Zusammenfassung fehlgeschlagen, neuer Gedanke angehaengt.")
SummaryErrorStatus ==
    Status("Fehler beim Aktualisieren der Zusammenfassung. Neuer Gedanke angehaengt.")

\* the status getPolishedNote sets after await updateSummary, whatever its outcome
SummaryDoneStatus ==
    Status("Notiz ueberarbeitet und Zusammenfassung aktualisiert. Bereit fuer naechste Aufnahme.")

\* the summarize call returns a text (possibly empty): updateSummary integrates it
SummaryReturn(k) ==
    /\ runs[k].pc = "summarizing"
    /\ \E updatedSummaryText \in SummaryTexts(k) :
          LET tokens == addTokenUsage(estimateTokens(runs[k].prompt),
                                      estimateTokens(updatedSummaryText))
          IN /\ currentSessionTokens' = tokens
             /\ currentNote' = [currentNote EXCEPT !.totalTokens = tokens]
             /\ currentSummary' =
                   integrate(currentSummary, updatedSummaryText, runs[k].polishedMarkdown)
             /\ runs' = [runs EXCEPT
                   ![k].pc = "done",
                   ![k].summarized = IF Truthy(updatedSummaryText) THEN "text" ELSE "empty"]
    /\ recordingStatus' = SummaryDoneStatus
    /\ UNCHANGED <<voiceNotesHistory, editorTitle, now, controller, ops, lastOp>>

\* the summarize call throws: updateSummary's catch block
SummaryThrow(k) ==
    /\ runs[k].pc = "summarizing"
    /\ currentSummary' = appendOnError(currentSummary, runs[k].polishedMarkdown)
    /\ runs' = [runs EXCEPT ![k].pc = "done", ![k].summarized = "throw"]
    /\ recordingStatus' = SummaryDoneStatus
    /\ UNCHANGED <<voiceNotesHistory, currentNote, currentSessionTokens, editorTitle, now,
                   controller, ops, lastOp>>

(***************************************************************************)
(* Specification.                                                          *)
(***************************************************************************)
ContextClosedStep == \E k \in 1..Len(captures) : ContextClosed(k)
GumResolveStep == \E k \in 1..Len(captures) : GumResolve(k)
GumRejectStep == \E k \in 1..Len(captures) : GumReject(k)
DataAvailableStep == \E k \in 1..Len(captures) : DataAvailable(k)
TracksEndedStep == \E k \in 1..Len(captures) : TracksEnded(k)
OnStopStep == \E k \in 1..Len(captures) : OnStop(k)
ReadDoneStep == \E k \in 1..Len(captures) : ReadDone(k)
TranscribeReturnStep == \E k \in 1..Len(captures) : TranscribeReturn(k)
TranscribeThrowStep == \E k \in 1..Len(captures) : TranscribeThrow(k)
PolishReturnStep == \E k \in 1..Len(captures) : PolishReturn(k)
PolishThrowStep == \E k \in 1..Len(captures) : PolishThrow(k)
SummaryReturnStep == \E k \in 1..Len(captures) : SummaryReturn(k)
SummaryThrowStep == \E k \in 1..Len(captures) : SummaryThrow(k)

Next ==
    \/ CreateNewNote
    \/ LoadNote
    \/ DeleteNote
    \/ EditorTitleBlur
    \/ SaveEdit
    \/ Restart
    \/ StartRecording
    \/ StopRecording
    \/ ContextClosedStep
    \/ GumResolveStep
    \/ GumRejectStep
    \/ DataAvailableStep
    \/ TracksEndedStep
    \/ OnStopStep
    \/ ReadDoneStep
    \/ TranscribeReturnStep
    \/ TranscribeThrowStep
    \/ PolishReturnStep
    \/ PolishThrowStep
    \/ SummaryReturnStep
    \/ SummaryThrowStep

Spec == Init /\ [][Next]_vars

\* the behaviours without user operations, with room for a second pipeline run
QuietOnStopStep == \E k \in 1..Len(captures) : OnStopWithin(k, MaxQuietRuns)

QuietNext ==
    \/ StartRecording
    \/ StopRecording
    \/ ContextClosedStep
    \/ GumResolveStep
    \/ GumRejectStep
    \/ DataAvailableStep
    \/ TracksEndedStep
    \/ QuietOnStopStep
    \/ ReadDoneStep
    \/ TranscribeReturnStep
    \/ TranscribeThrowStep
    \/ PolishReturnStep
    \/ PolishThrowStep
    \/ SummaryReturnStep
    \/ SummaryThrowStep

QuietSpec == Init /\ [][QuietNext]_vars

\* the FileReader finishes and every call to the generative service returns
\* or rejects: a run that waits for one of them is answered in the end
AnswersArrive ==
    /\ WF_vars(ReadDoneStep)
    /\ WF_vars(TranscribeReturnStep \/ TranscribeThrowStep)
    /\ WF_vars(PolishReturnStep \/ PolishThrowStep)
    /\ WF_vars(SummaryReturnStep \/ SummaryThrowStep)

FairSpec == QuietSpec /\ AnswersArrive

\* the behaviours of a page opened over a history filled to the cap
FullHistorySpec == FullInit /\ [][Next]_vars


(***************************************************************************)
(* Vocabulary of the properties.                                           *)
(***************************************************************************)
\* the step is the user operation op, run to its end
OpStep(op) == ops' = ops + 1 /\ lastOp'.op = op /\ ~lastOp'.raised

\* the persisted history after the step
historyAfter == getHistory(voiceNotesHistory')

IsPrefix(a, b) == Len(a) <= Len(b) /\ SubSeq(b, 1, Len(a)) = a
IsSuffix(a, b) == Len(a) <= Len(b) /\ SubSeq(b, Len(b) - Len(a) + 1, Len(b)) = a

Notes == {currentNote} \cup {history[i] : i \in 1..Len(history)}

\* run k is the only writer of the note of a session no user operation touched
Undisturbed(k) ==
    /\ ops = 0
    /\ \A j \in 1..Len(runs) : j # k => runs[j].transcribed # "text"

(***************************************************************************)
(* C1: the persisted history never holds more than 50 notes, and a step    *)
(* that commits a note with a new id into a history of exactly 50 notes    *)
(* leaves 50 notes: the committed note at index 0, behind it the first 49  *)
(* of the old entries in their order, the old last entry gone.             *)
(***************************************************************************)
CommitsNewNoteIntoFullHistory ==
    /\ \/ OpStep("createNewNote")
       \/ OpStep("loadNote") /\ findIndex(history, lastOp'.id) > 0
    /\ HoldsContent(currentNote)
    /\ findIndex(history, currentNote.id) = 0
    /\ Len(history) = HistoryCap

OldestEvicted ==
    /\ Len(historyAfter) = HistoryCap
    /\ historyAfter[1].id = currentNote.id
    /\ historyAfter[1].rawTranscription = currentNote.rawTranscription
    /\ historyAfter[1].polishedNoteMarkdown = currentNote.polishedNoteMarkdown
    /\ \A i \in 1..(HistoryCap - 1) : historyAfter[i + 1] = history[i]
    /\ \A i \in 1..HistoryCap : historyAfter[i].id # history[HistoryCap].id

C1_HistoryCapped ==
    /\ [](Len(history) <= HistoryCap)
    /\ [][CommitsNewNoteIntoFullHistory => OldestEvicted]_vars

\* a note of this session sits in front of a full history whose last entry is
\* the old second-to-last one
C1_Witness ==
    /\ Len(history) = HistoryCap
    /\ history[1].id >= StartTime
    /\ history[HistoryCap] = OldNote(2)
    /\ lastOp.op \in {"createNewNote", "loadNote"}

(***************************************************************************)
(* C2: a step that is a confirmed deleteNote(id) for an id in the history  *)
(* leaves no note with that id in the persisted history, also when id is   *)
(* the id of the current note and that note holds content.                 *)
(***************************************************************************)
C2_DeletedNoteIsGone ==
    [][OpStep("deleteNote") /\ findIndex(history, lastOp'.id) > 0
          => findIndex(historyAfter, lastOp'.id) = 0]_vars

(***************************************************************************)
(* C3: no call to the generative service is issued for the audio of a      *)
(* capture that createNewNote stopped.                                     *)
(***************************************************************************)
C3_DiscardedCaptureNotProcessed ==
    \A k \in 1..Len(captures) :
        captures[k].stoppedByNewNote => runs[k].pc = "none" /\ runs[k].calls = {}

(***************************************************************************)
(* C4: a step that is loadNote(id) for an id in the history leaves the     *)
(* current note equal, field for field, to the entry with that id of the   *)
(* history as it stands after the step, and the running summary and the    *)
(* session counter equal to that entry's summary and totalTokens.          *)
(***************************************************************************)
C4_LoadedNoteEqualsEntry ==
    [][OpStep("loadNote") /\ findIndex(history, lastOp'.id) > 0
          => LET i == findIndex(historyAfter, lastOp'.id)
             IN /\ i > 0
                /\ currentNote' = historyAfter[i]
                /\ currentSummary' = historyAfter[i].summary
                /\ currentSessionTokens' = historyAfter[i].totalTokens]_vars

(***************************************************************************)
(* C5: the step in which a transcribe call returns the empty string leaves *)
(* the current note's rawTranscription and polishedNoteMarkdown as they    *)
(* were (empty on a fresh note), and a run whose transcribe call returned  *)
(* the empty string is finished having issued the transcribe call alone.   *)
(***************************************************************************)
EmptyTranscriptionStep(k) ==
    runs[k].pc = "transcribing" /\ runs'[k].transcribed = "empty"

C5_EmptyTranscriptionShortCircuits ==
    /\ [](\A k \in 1..Len(runs) :
             runs[k].transcribed = "empty"
                => runs[k].pc = "done" /\ runs[k].calls = {"transcribe"})
    /\ [][\A k \in 1..Len(runs) :
             EmptyTranscriptionStep(k)
                => /\ currentNote'.rawTranscription = currentNote.rawTranscription
                   /\ currentNote'.polishedNoteMarkdown = currentNote.polishedNoteMarkdown
                   /\ currentNote'.polishedNoteHtml = currentNote.polishedNoteHtml]_vars

C5_Witness ==
    \E k \in 1..Len(runs) :
        /\ runs[k].transcribed = "empty"
        /\ currentNote.rawTranscription = <<>>
        /\ currentNote.polishedNoteMarkdown = <<>>
        /\ currentNote.totalTokens > 0

(***************************************************************************)
(* C6: the step in which a summarize call throws or returns the empty text *)
(* appends to the running summary: the summary A of before the step is a   *)
(* prefix of the summary after it, and the polished markdown B of the run  *)
(* closes it verbatim, behind A.                                           *)
(***************************************************************************)
SummarizeFailedStep(k) ==
    runs[k].pc = "summarizing" /\ runs'[k].summarized \in {"empty", "throw"}

C6_FailedSummaryKeepsBoth ==
    [][\A k \in 1..Len(runs) :
          SummarizeFailedStep(k)
             => /\ Truthy(runs[k].polishedMarkdown)
                /\ IsPrefix(currentSummary, currentSummary')
                /\ IsSuffix(runs[k].polishedMarkdown, currentSummary')
                /\ Len(currentSummary') > Len(currentSummary) + Len(runs[k].polishedMarkdown)]_vars

\* the summary of a loaded note, the mark, and the thought behind it
C6_Witness ==
    \E k \in 1..Len(runs) :
        /\ runs[k].summarized = "empty"
        /\ currentSummary =
              OldNote(1).summary \o IntegrationFailedMark \o runs[k].polishedMarkdown

(***************************************************************************)
(* C7: the step in which polish throws or returns empty leaves the current *)
(* note's rawTranscription as it was, and the step in which summarize      *)
(* throws or returns empty leaves its polishedNoteMarkdown and             *)
(* polishedNoteHtml as they were; in a session that no user operation and  *)
(* no other run has touched, rawTranscription then equals the transcribe   *)
(* result, and the polished fields the polish result and its rendering.    *)
(***************************************************************************)
PolishFailedStep(k) ==
    runs[k].pc = "polishing" /\ runs'[k].polished \in {"empty", "throw"}

C7_EarlierOutputKept ==
    /\ [](\A k \in 1..Len(runs) :
             /\ runs[k].polished \in {"empty", "throw"} /\ Undisturbed(k)
                   => /\ Truthy(currentNote.rawTranscription)
                      /\ currentNote.rawTranscription = runs[k].transcriptionText
             /\ runs[k].summarized \in {"empty", "throw"} /\ Undisturbed(k)
                   => /\ currentNote.rawTranscription = runs[k].transcriptionText
                      /\ currentNote.polishedNoteMarkdown = runs[k].polishedMarkdown
                      /\ currentNote.polishedNoteHtml = MarkedParse(runs[k].polishedMarkdown))
    /\ [][\A k \in 1..Len(runs) :
             /\ PolishFailedStep(k)
                   => currentNote'.rawTranscription = currentNote.rawTranscription
             /\ SummarizeFailedStep(k)
                   => /\ currentNote'.rawTranscription = currentNote.rawTranscription
                      /\ currentNote'.polishedNoteMarkdown = currentNote.polishedNoteMarkdown
                      /\ currentNote'.polishedNoteHtml = currentNote.polishedNoteHtml]_vars

C7_Witness ==
    \E k \in 1..Len(runs) :
        /\ runs[k].summarized = "throw"
        /\ Undisturbed(k)
        /\ currentNote.polishedNoteMarkdown = runs[k].polishedMarkdown
        /\ Truthy(Trim(currentNote.polishedNoteMarkdown))
        /\ Truthy(currentNote.polishedNoteHtml)

(***************************************************************************)
(* C8, as claimed: for the current note and every note of the persisted    *)
(* history, polishedNoteMarkdown and polishedNoteHtml are both empty or    *)
(* both non-empty.                                                         *)
(***************************************************************************)
C8_BothOrNeither ==
    \A n \in Notes : Truthy(n.polishedNoteMarkdown) <=> Truthy(n.polishedNoteHtml)

(***************************************************************************)
(* C8, amended: for the current note and every note of the persisted       *)
(* history, polishedNoteHtml is the rendering of polishedNoteMarkdown when *)
(* the markdown is non-empty, and is empty or one of getPolishedNote's     *)
(* three messages (no transcription, empty result, error) when it is empty.*)
(***************************************************************************)
C8_HtmlFollowsMarkdown ==
    \A n \in Notes :
        IF Truthy(n.polishedNoteMarkdown)
        THEN n.polishedNoteHtml = MarkedParse(n.polishedNoteMarkdown)
        ELSE n.polishedNoteHtml \in {<<>>, NoTranscriptHtml, emptyPolishMsg, PolishErrorHtml}

\* a committed note without markdown whose HTML is the error message
C8_Witness ==
    \E i \in 1..Len(history) :
        /\ history[i].polishedNoteMarkdown = <<>>
        /\ history[i].polishedNoteHtml = PolishErrorHtml

(***************************************************************************)
(* C9: a createNewNote step whose outgoing note has empty rawTranscription *)
(* and empty polishedNoteMarkdown leaves the stored history as it was.     *)
(***************************************************************************)
C9_EmptyNoteNotCommitted ==
    [][OpStep("createNewNote") /\ ~HoldsContent(currentNote)
          => voiceNotesHistory' = voiceNotesHistory]_vars

\* two createNewNote calls in a row in a session without any capture
C9_Witness ==
    /\ lastOp.op = "createNewNote"
    /\ lastOp.prev = "createNewNote"
    /\ ~lastOp.dirty
    /\ ops = 2
    /\ Len(captures) = 0
    /\ voiceNotesHistory = Stored(OldHistory(MaxOldNotes))

(***************************************************************************)
(* C10: a createNewNote step whose outgoing note has non-empty             *)
(* rawTranscription or polishedNoteMarkdown leaves in the history an entry *)
(* with the outgoing note's id, whose summary and totalTokens are the      *)
(* running summary and the session counter of before the step and whose    *)
(* rawTranscription and polished fields are the outgoing note's.           *)
(***************************************************************************)
C10_ContentCommitted ==
    [][OpStep("createNewNote") /\ HoldsContent(currentNote)
          => \E i \in 1..Len(historyAfter) :
                /\ historyAfter[i].id = currentNote.id
                /\ historyAfter[i].summary = currentSummary
                /\ historyAfter[i].totalTokens = currentSessionTokens
                /\ historyAfter[i].rawTranscription = currentNote.rawTranscription
                /\ historyAfter[i].polishedNoteMarkdown = currentNote.polishedNoteMarkdown
                /\ historyAfter[i].polishedNoteHtml = currentNote.polishedNoteHtml
                /\ historyAfter[i].title = currentNote.title
                /\ historyAfter[i].timestamp = currentNote.timestamp]_vars

\* a note of this session, committed by createNewNote with its summary and count
C10_Witness ==
    /\ lastOp.op = "createNewNote"
    /\ lastOp.dirty
    /\ lastOp.id >= StartTime
    /\ \E i \in 1..Len(history) :
          /\ history[i].id = lastOp.id
          /\ Truthy(history[i].summary)
          /\ history[i].totalTokens > 0

(***************************************************************************)
(* C11: a step that commits a note whose id is already in the history      *)
(* (createNewNote, or loadNote of a stored id, with an outgoing note that  *)
(* holds content) replaces the entry at its index: the history keeps its   *)
(* length, every other entry keeps its position and its content, and the   *)
(* entry at the old index carries the committed note.                      *)
(***************************************************************************)
CommitsExistingId ==
    /\ \/ OpStep("createNewNote")
       \/ OpStep("loadNote") /\ findIndex(history, lastOp'.id) > 0
    /\ HoldsContent(currentNote)
    /\ findIndex(history, currentNote.id) > 0

ReplacedInPlace ==
    LET i == findIndex(history, currentNote.id)
    IN /\ Len(historyAfter) = Len(history)
       /\ \A j \in 1..Len(history) : j # i => historyAfter[j] = history[j]
       /\ historyAfter[i].id = currentNote.id
       /\ historyAfter[i].rawTranscription = currentNote.rawTranscription
       /\ historyAfter[i].polishedNoteMarkdown = currentNote.polishedNoteMarkdown
       /\ historyAfter[i].summary = currentSummary
       /\ historyAfter[i].totalTokens = currentSessionTokens

C11_ReplacedAtItsIndex == [][CommitsExistingId => ReplacedInPlace]_vars

\* the oldest note was loaded, grew in this session and was committed again:
\* it is still the last of the stored notes
C11_Witness ==
    /\ lastOp.op = "createNewNote"
    /\ lastOp.dirty
    /\ lastOp.id = 1
    /\ Len(history) = MaxOldNotes
    /\ history[MaxOldNotes].id = 1
    /\ history[MaxOldNotes].totalTokens > OldNote(1).totalTokens
    /\ history[1] = OldNote(MaxOldNotes)

(***************************************************************************)
(* C12: in every reachable state no two entries of the persisted history   *)
(* carry the same id: the history holds as many ids as entries.            *)
(***************************************************************************)
C12_UniqueIds ==
    LET h == history
    IN Cardinality({h[i].id : i \in 1..Len(h)}) = Len(h)

\* createNewNote committed a note of this session and, the clock not having
\* advanced, gave the fresh note the id of the entry it had just written
C12_Witness ==
    /\ lastOp.op = "createNewNote"
    /\ lastOp.dirty
    /\ lastOp.id >= StartTime
    /\ currentNote.id = lastOp.id
    /\ Len(history) = MaxOldNotes + 1
    /\ history[1].id = currentNote.id

(***************************************************************************)
(* C13: in every reachable state the persisted history is ordered most     *)
(* recent first: the timestamp of an entry is never smaller than the       *)
(* timestamp of the entry behind it.                                       *)
(***************************************************************************)
C13_MostRecentFirst ==
    LET h == history
    IN \A i \in 1..(Len(h) - 1) : h[i].timestamp >= h[i + 1].timestamp

(***************************************************************************)
(* C14: the step that handles the stop notification of a capture that      *)
(* stopRecording stopped, and the stopRecording step whose stop() call     *)
(* throws, leave stream null, the tracks of the stopped capture's stream   *)
(* stopped, and timerIntervalId and waveformDrawingId null, with or        *)
(* without a buffered chunk.                                               *)
(***************************************************************************)
\* the step handles the stop notification of recorder k
StopNotified(k) ==
    captures[k].recorder = "stopping" /\ captures'[k].recorder = "inactive"

\* the step is a stopRecording whose mediaRecorder.stop() throws
StopThrew ==
    /\ isRecording /\ ~isRecording'
    /\ mediaRecorder # 0
    /\ captures[mediaRecorder].recorder # "recording"
    /\ recordingStatus'.msg = "Audio wird verarbeitet..."

LoopsCancelled == ~timerIntervalId /\ ~waveformDrawingId

\* the stop notification of a capture stopRecording (or the end of its tracks)
\* stopped is handled: everything of that capture is released
NotifiedStopReleases ==
    \A k \in 1..Len(captures) :
        (StopNotified(k) /\ ~captures[k].stoppedByNewNote)
           => (stream' = 0 /\ LoopsCancelled' /\ captures'[k].track = "stopped")

ThrowingStopReleases ==
    StopThrew
       => (stream' = 0 /\ LoopsCancelled' /\ captures'[mediaRecorder].track = "stopped")

C14_StopReleasesAll == [][NotifiedStopReleases /\ ThrowingStopReleases]_vars

(***************************************************************************)
(* C15: in every reachable state at most one acquired stream has live      *)
(* tracks, and when the controller is idle (isRecording false, no          *)
(* startRecording call waiting for the context to close or for the         *)
(* microphone, no recorder recording or owing its data or its stop         *)
(* notification) no acquired stream has live tracks and no analysis        *)
(* context is running.                                                     *)
(***************************************************************************)
Unreleased == {k \in 1..Len(captures) : captures[k].track = "live"}

Idle ==
    /\ ~isRecording
    /\ \A k \in 1..Len(captures) :
          /\ captures[k].pc \in {"started", "failed"}
          /\ captures[k].recorder \in {"none", "inactive"}

C15_StreamsReleased ==
    /\ Cardinality(Unreleased) <= 1
    /\ Idle => /\ Unreleased = {}
               /\ \A k \in 1..Len(captures) : captures[k].context # "running"

(***************************************************************************)
(* C16: the step in which the first microphone request of a startRecording *)
(* call is rejected issues the retry, with echo cancellation, noise        *)
(* suppression and auto gain off, and changes nothing else of the          *)
(* controller; a call issues its first request once and its retry only     *)
(* after a rejected first request, so never more than two; the step in     *)
(* which the retry is rejected leaves isRecording false, stream null, both *)
(* loops cancelled and a failure message on the status surface.            *)
(***************************************************************************)
\* the answer to the request call k waits for is a rejection
Rejected(k, pc) ==
    captures[k].pc = pc /\ captures'[k].pc \notin {pc, "started"}

FailureStatuses == {startErrorStatus(errorName) : errorName \in GumErrors}

C16_RetriedOnce ==
    [][\A k \in 1..Len(captures) :
          /\ Rejected(k, "gum1")
                => /\ captures' = [getUserMedia(captures, k, ProcessingOff)
                                      EXCEPT ![k].caught = captures'[k].caught]
                   /\ UNCHANGED <<isRecording, stream, mediaRecorder, recordingStatus>>
          /\ captures'[k].pc = "gum1" => captures[k].pc \in {"closing", "gum1"}
          /\ captures'[k].pc = "gum2" => captures[k].pc \in {"gum1", "gum2"}
          /\ Rejected(k, "gum2")
                => /\ captures'[k].pc = "failed"
                   /\ ~isRecording'
                   /\ stream' = 0
                   /\ LoopsCancelled'
                   /\ recordingStatus' \in FailureStatuses]_vars

\* a call whose two requests were both rejected, the permission denied
C16_Witness ==
    \E k \in 1..Len(captures) :
        /\ captures[k].pc = "failed"
        /\ ~isRecording
        /\ stream = 0
        /\ recordingStatus = startErrorStatus("NotAllowedError")

StopsCaptureInProgress ==
    /\ ~isRecording'
    /\ audioChunks' = audioChunks
    /\ stream' = stream
    /\ mediaRecorder' = mediaRecorder
    /\ captures'[mediaRecorder].recorder # "recording"

NoAudioStatus == Status("Keine Audiodaten erfasst. Bitte erneut versuchen.")

C18_EmptyCaptureNotProcessed ==
    /\ [](\A k \in 1..Len(runs) :
             runs[k].pc # "none" \/ runs[k].calls # {} => runs[k].blob # <<>>)
    /\ [][\A k \in 1..Len(captures) :
             /\ StopNotified(k) /\ audioChunks = <<>>
                   => /\ runs' = runs
                      /\ recordingStatus' = NoAudioStatus
                      /\ UNCHANGED session
             /\ runs[k].pc = "none" /\ runs'[k].pc # "none"
                   => StopNotified(k) /\ audioChunks # <<>>]_vars

\* a capture on a loaded note was stopped and delivered nothing: no run, the
\* note and its count as loaded
C18_Witness ==
    \E k \in 1..Len(captures) :
        /\ captures[k].recorder = "inactive"
        /\ ~captures[k].stoppedByNewNote
        /\ runs[k] = NoRun
        /\ recordingStatus = NoAudioStatus
        /\ currentNote = OldNote(1)
        /\ currentSessionTokens = OldNote(1).totalTokens

(***************************************************************************)
(* Token accounting: vocabulary of C19 and C20.                            *)
(***************************************************************************)
\* the words of a text
WordCount(text) == Cardinality({i \in 1..Len(text) : text[i] # WS})

\* the least integer not below n / 0.75
CeilOver075(n) == CHOOSE t \in 0..(2 * n + 1) : 3 * t >= 4 * n /\ 3 * (t - 1) < 4 * n

\* the step in which the call of a stage of run k returns a text, returns the
\* empty text, or throws
Returned(k, stage, field) ==
    runs[k].pc = stage /\ runs'[k][field] \in {"text", "empty"}
Succeeded(k, stage, field) ==
    runs[k].pc = stage /\ runs'[k][field] = "text"
Threw(k, stage, field) ==
    runs[k].pc = stage /\ runs'[k][field] = "throw"

\* request and response text of the summarize call that returns in the step
SummaryResponse(k) == IF runs'[k].summarized = "text" THEN currentSummary' ELSE <<>>

\* the counter grows in the step by the amounts count gives for the two texts
Adds(count(_), request, response) ==
    currentSessionTokens' =
        currentSessionTokens + CeilOver075(count(request)) + CeilOver075(count(response))

\* the step resets the session: createNewNote, loadNote of a stored id, or
\* deleteNote of the current note, which calls createNewNote
SessionReset ==
    \/ OpStep("createNewNote")
    \/ OpStep("loadNote")
    \/ OpStep("deleteNote") /\ lastOp'.id = currentNote.id
    \/ OpStep("restart")

StageCallEnds ==
    \E k \in 1..Len(runs) : runs[k].pc \in {"transcribing", "polishing", "summarizing"}
                                /\ runs'[k].pc # runs[k].pc

(***************************************************************************)
(* C19, as claimed: the step in which a stage call succeeds (returns a     *)
(* non-empty text) adds ceil(words/0.75) of the request text plus          *)
(* ceil(words/0.75) of the response text to the session counter, words     *)
(* being the number of words of the text, and a stage call that does not   *)
(* succeed leaves the counter as it was.                                   *)
(***************************************************************************)
C19_TokensSumOverWords ==
    [][\A k \in 1..Len(runs) :
          /\ Succeeded(k, "transcribing", "transcribed")
                => Adds(WordCount, TranscribeInstruction, runs'[k].transcriptionText)
          /\ Succeeded(k, "polishing", "polished")
                => Adds(WordCount, polishPrompt(runs[k].transcriptionText),
                        runs'[k].polishedMarkdown)
          /\ Succeeded(k, "summarizing", "summarized")
                => Adds(WordCount, runs[k].prompt, SummaryResponse(k))
          /\ runs[k].pc # runs'[k].pc
             /\ ~Succeeded(k, "transcribing", "transcribed")
             /\ ~Succeeded(k, "polishing", "polished")
             /\ ~Succeeded(k, "summarizing", "summarized")
                => currentSessionTokens' = currentSessionTokens]_vars

(***************************************************************************)
(* C19, amended: the step in which a stage call returns, with a text or    *)
(* with the empty text, adds ceil(n/0.75) of the request text plus         *)
(* ceil(n/0.75) of the response text to the session counter, n being       *)
(* text.split(/\s+/).length: the number of words, plus one for leading     *)
(* and one for trailing whitespace, and 1 for the empty text; a call that  *)
(* throws adds nothing; no step other than a returning stage call and a    *)
(* session reset changes the counter; and the current note's totalTokens   *)
(* equals the session counter in every reachable state.                    *)
(***************************************************************************)
StageReturnsAdd ==
    \A k \in 1..Len(runs) :
        /\ Returned(k, "transcribing", "transcribed")
              => Adds(SplitLength, TranscribeInstruction, runs'[k].transcriptionText)
        /\ Returned(k, "polishing", "polished")
              => Adds(SplitLength, polishPrompt(runs[k].transcriptionText),
                      runs'[k].polishedMarkdown)
        /\ Returned(k, "summarizing", "summarized")
              => Adds(SplitLength, runs[k].prompt, SummaryResponse(k))
        /\ \/ Threw(k, "transcribing", "transcribed")
           \/ Threw(k, "polishing", "polished")
           \/ Threw(k, "summarizing", "summarized")
              => currentSessionTokens' = currentSessionTokens

OtherStepsKeepCount ==
    (~StageCallEnds /\ ~SessionReset) => currentSessionTokens' = currentSessionTokens

C19_TokensSumOverSplit ==
    /\ [](currentNote.totalTokens = currentSessionTokens)
    /\ [][StageReturnsAdd /\ OtherStepsKeepCount]_vars

\* three calls returned a text on a note loaded before them: the counter is
\* the loaded count plus the six amounts
C19_Witness ==
    \E k \in 1..Len(runs) :
        /\ runs[k].summarized = "text"
        /\ lastOp.op = "loadNote"
        /\ ops = 1
        /\ currentSessionTokens =
              OldNote(1).totalTokens
                 + CeilOver075(SplitLength(TranscribeInstruction))
                 + CeilOver075(SplitLength(runs[k].transcriptionText))
                 + CeilOver075(SplitLength(polishPrompt(runs[k].transcriptionText)))
                 + CeilOver075(SplitLength(runs[k].polishedMarkdown))
                 + CeilOver075(SplitLength(runs[k].prompt))
                 + CeilOver075(SplitLength(currentSummary))
        /\ currentNote.totalTokens = currentSessionTokens

(***************************************************************************)
(* C20: the current note's totalTokens is a natural number in every        *)
(* reachable state, and every step that is not a session reset             *)
(* (createNewNote, also when deleteNote of the current note calls it,      *)
(* loadNote, or the construction of a new app) leaves it equal or larger.  *)
(***************************************************************************)
C20_TokensNeverDecrease ==
    /\ [](currentNote.totalTokens \in Nat)
    /\ [][~SessionReset => currentNote'.totalTokens >= currentNote.totalTokens]_vars

\* a stage call returned on a loaded note: its count grew beyond the loaded one
C20_Witness ==
    /\ lastOp.op = "loadNote"
    /\ currentNote.id = 1
    /\ currentNote.totalTokens > OldNote(1).totalTokens
    /\ \E k \in 1..Len(runs) : runs[k].polished = "text"

(***************************************************************************)
(* C21, as claimed: the step that finishes a run whose transcribe, polish  *)
(* and summarize calls returned the non-empty texts T, P and S, in a       *)
(* session no user operation and no other run touched, leaves the current  *)
(* note with rawTranscription T, polishedNoteMarkdown P, summary S and a   *)
(* totalTokens above zero.                                                 *)
(***************************************************************************)
\* the step in which the summarize call of run k returns a non-empty text,
\* transcribe and polish having returned non-empty texts before
AllStagesReturned(k) ==
    /\ runs[k].pc = "summarizing"
    /\ runs'[k].pc = "done"
    /\ runs'[k].transcribed = "text"
    /\ runs'[k].polished = "text"
    /\ runs'[k].summarized = "text"
    /\ Undisturbed(k)

NonEmptySummaryTexts(k) == SummaryTexts(k) \ {<<>>}

C21_NoteHoldsAllThree ==
    [][\A k \in 1..Len(runs) :
          AllStagesReturned(k)
             => (/\ currentNote'.rawTranscription = runs[k].transcriptionText
                 /\ currentNote'.polishedNoteMarkdown = runs[k].polishedMarkdown
                 /\ currentNote'.summary \in NonEmptySummaryTexts(k)
                 /\ currentNote'.totalTokens > 0)]_vars

(***************************************************************************)
(* C21, amended: that step leaves the current note with rawTranscription   *)
(* T, polishedNoteMarkdown P, the rendering of P as polishedNoteHtml and a *)
(* totalTokens above zero that equals the session counter; S is the        *)
(* running summary of the session, and the note's own summary field is as  *)
(* it was before the step.  The note receives S in the step that commits   *)
(* it: createNewNote in that session stores the note with summary S.       *)
(***************************************************************************)
SummaryKeptInSession(k) ==
    AllStagesReturned(k)
       => (/\ currentNote'.rawTranscription = runs[k].transcriptionText
           /\ Truthy(Trim(runs[k].transcriptionText))
           /\ currentNote'.polishedNoteMarkdown = runs[k].polishedMarkdown
           /\ Truthy(runs[k].polishedMarkdown)
           /\ currentNote'.polishedNoteHtml = MarkedParse(runs[k].polishedMarkdown)
           /\ currentSummary' \in NonEmptySummaryTexts(k)
           /\ currentNote'.summary = currentNote.summary
           /\ currentNote'.totalTokens > 0
           /\ currentNote'.totalTokens = currentSessionTokens')

SummaryStampedAtCommit(k) ==
    (/\ runs[k].summarized = "text"
     /\ Undisturbed(k)
     /\ OpStep("createNewNote"))
       => (/\ findIndex(historyAfter, currentNote.id) > 0
           /\ historyAfter[findIndex(historyAfter, currentNote.id)].summary
                 \in NonEmptySummaryTexts(k)
           /\ historyAfter[findIndex(historyAfter, currentNote.id)].summary
                 # currentNote.summary)

C21_SessionHoldsSummary ==
    [][\A k \in 1..Len(runs) :
          (SummaryKeptInSession(k) /\ SummaryStampedAtCommit(k))]_vars

\* the run is finished, the note has T and P and an empty summary field, the
\* session summary is S
C21_Witness ==
    \E k \in 1..Len(runs) :
        /\ runs[k].pc = "done"
        /\ runs[k].summarized = "text"
        /\ Undisturbed(k)
        /\ currentNote.rawTranscription = runs[k].transcriptionText
        /\ currentNote.polishedNoteMarkdown = runs[k].polishedMarkdown
        /\ currentSummary \in NonEmptySummaryTexts(k)
        /\ currentNote.summary = <<>>
        /\ currentNote.totalTokens > 0

(***************************************************************************)
(* C22, as claimed: while the storage key is missing or holds a text that  *)
(* is not a serialized note array, the history reads as the empty          *)
(* sequence, no user operation raises, and every user operation does what  *)
(* it does on an empty history: createNewNote on a note with content       *)
(* leaves a history of that one note, every other operation leaves the     *)
(* history empty.                                                          *)
(***************************************************************************)
NoNoteArrayStored == voiceNotesHistory.kind # "array"

UserOperation == ops' = ops + 1

AsOnEmptyHistory ==
    /\ ~lastOp'.raised
    /\ Len(historyAfter) =
          (IF lastOp'.op = "createNewNote" /\ HoldsContent(currentNote) THEN 1 ELSE 0)

C22_UnreadableHistoryReadsEmpty ==
    /\ [](NoNoteArrayStored => history = <<>>)
    /\ [][(NoNoteArrayStored /\ UserOperation) => AsOnEmptyHistory]_vars

(***************************************************************************)
(* C23: the construction of a new VoiceNotesApp over the same storage      *)
(* writes nothing, and the history the new instance reads is the history   *)
(* read before the restart; a step that commits the current note leaves a  *)
(* history in which the note reads back field for field as it was written  *)
(* (the note with the session's summary and token count) and every other   *)
(* entry reads back as it read before.                                     *)
(***************************************************************************)
WrittenNote ==
    [currentNote EXCEPT !.summary = currentSummary, !.totalTokens = currentSessionTokens]

ReadsBackAsWritten ==
    LET h == history
        after == historyAfter
        i == findIndex(after, currentNote.id)
        shift == IF findIndex(h, currentNote.id) > 0 THEN 0 ELSE 1
    IN /\ i > 0
       /\ after[i] = WrittenNote
       /\ \A j \in 1..Len(after) : j # i => after[j] = h[j - shift]

RestartKeepsHistory ==
    OpStep("restart")
       => (/\ voiceNotesHistory' = voiceNotesHistory
           /\ historyAfter = history)

CommitReadsBack ==
    (OpStep("createNewNote") /\ HoldsContent(currentNote)) => ReadsBackAsWritten

InFlight ==
    {k \in 1..Len(runs) : runs[k].pc \in {"transcribing", "polishing", "summarizing"}}

C28_OneCallInFlight == Cardinality(InFlight) <= 1

(***************************************************************************)
(* C24: once a history entry is loaded, what the pipeline writes to the    *)
(* current note reaches no persisted entry before the note is committed    *)
(* again: a step of a pipeline run leaves the stored history as it is, and *)
(* a step other than createNewNote, loadNote and deleteNote leaves every   *)
(* entry's transcription, polished note, summary and token count as they   *)
(* are.                                                                    *)
(***************************************************************************)
PipelineStep == runs' # runs /\ ops' = ops

CommittingStep ==
    ops' = ops + 1 /\ lastOp'.op \in {"createNewNote", "loadNote", "deleteNote"}

ContentOf(note) == [note EXCEPT !.title = ""]

ContentsKept ==
    LET h == history
        after == historyAfter
    IN /\ Len(after) = Len(h)
       /\ \A i \in 1..Len(h) : ContentOf(after[i]) = ContentOf(h[i])

PipelineKeepsHistory == PipelineStep => voiceNotesHistory' = voiceNotesHistory

OnlyCommitsChangeContents ==
    (~CommittingStep /\ voiceNotesHistory' # voiceNotesHistory) => ContentsKept

C24_LoadedEntryKeptUntilCommit ==
    [][PipelineKeepsHistory /\ OnlyCommitsChangeContents]_vars

\* an entry was loaded, a polish call threw after that: the current note has
\* the error placeholder, its persisted entry the polished note it had
C24_Witness ==
    \E k \in 1..Len(runs) :
        /\ lastOp.op = "loadNote"
        /\ runs[k].polished = "throw"
        /\ findIndex(history, currentNote.id) > 0
        /\ currentNote.polishedNoteHtml = PolishErrorHtml
        /\ history[findIndex(history, currentNote.id)].polishedNoteHtml
              = OldNote(1).polishedNoteHtml
        /\ currentNote.rawTranscription
              # history[findIndex(history, currentNote.id)].rawTranscription

(***************************************************************************)
(* C25, as claimed: a createNewNote step leaves the running summary empty  *)
(* and the session counter 0, a current note with empty title,             *)
(* transcription, polished fields and summary and totalTokens 0, and the   *)
(* id of that note is neither the id of the outgoing note nor the id of an *)
(* entry of the history.                                                   *)
(***************************************************************************)
SessionFresh ==
    /\ currentSummary' = <<>>
    /\ currentSessionTokens' = 0
    /\ currentNote'.title = ""
    /\ currentNote'.rawTranscription = <<>>
    /\ currentNote'.polishedNoteMarkdown = <<>>
    /\ currentNote'.polishedNoteHtml = <<>>
    /\ currentNote'.summary = <<>>
    /\ currentNote'.totalTokens = 0

IdIsNew ==
    /\ currentNote'.id # currentNote.id
    /\ findIndex(historyAfter, currentNote'.id) = 0

C25_FreshNoteWithNewId ==
    [][OpStep("createNewNote") => (SessionFresh /\ IdIsNew)]_vars

\* the part of C25 that does not speak of the id
C25_SessionFresh == [][OpStep("createNewNote") => SessionFresh]_vars

(***************************************************************************)
(* C26, as claimed: the step in which the polish call returns the empty    *)
(* text stores an empty polishedNoteMarkdown with the placeholder as       *)
(* polishedNoteHtml, and the run goes on: its summarize call is issued.    *)
(***************************************************************************)
PolishEmptyStep(k) == runs[k].pc = "polishing" /\ runs'[k].polished = "empty"

StoredEmptyWithPlaceholder ==
    /\ currentNote'.polishedNoteMarkdown = <<>>
    /\ currentNote'.polishedNoteHtml = emptyPolishMsg

C26_EmptyPolishStillSummarizes ==
    [][\A k \in 1..Len(runs) :
          PolishEmptyStep(k)
             => (StoredEmptyWithPlaceholder /\ "summarize" \in runs'[k].calls)]_vars

(***************************************************************************)
(* C26, amended: that step stores an empty polishedNoteMarkdown with the   *)
(* placeholder as polishedNoteHtml and ends the run: no summarize call is  *)
(* issued, then or later, the running summary stays as it is and the       *)
(* status reports the failed polish.                                       *)
(***************************************************************************)
PolishEmptyStatus == Status("Ueberarbeitung fehlgeschlagen oder leer.")

EmptyPolishEndsRun(k) ==
    PolishEmptyStep(k)
       => (/\ StoredEmptyWithPlaceholder
           /\ runs'[k].pc = "done"
           /\ runs'[k].calls = {"transcribe", "polish"}
           /\ currentSummary' = currentSummary
           /\ recordingStatus' = PolishEmptyStatus)

NoSummarizeAfterEmptyPolish ==
    \A k \in 1..Len(runs) :
        runs[k].polished = "empty" => (runs[k].pc = "done" /\ "summarize" \notin runs[k].calls)

C26_EmptyPolishEndsRun ==
    /\ []NoSummarizeAfterEmptyPolish
    /\ [][\A k \in 1..Len(runs) : EmptyPolishEndsRun(k)]_vars

C26_Witness ==
    \E k \in 1..Len(runs) :
        /\ runs[k].polished = "empty"
        /\ Undisturbed(k)
        /\ currentNote.rawTranscription = runs[k].transcriptionText
        /\ currentNote.polishedNoteMarkdown = <<>>
        /\ currentNote.polishedNoteHtml = emptyPolishMsg
        /\ currentSummary = <<>>
        /\ recordingStatus = PolishEmptyStatus

(***************************************************************************)
(* C27: within one run the calls are issued in the order transcribe,       *)
(* polish, summarize, each at most once and each only when the call before *)
(* it has returned a text: a call once issued stays on the run's record,   *)
(* the transcribe call is issued by a run that has issued none, the polish *)
(* call in the step in which the transcribe call returns, the summarize    *)
(* call in the step in which the polish call returns.  A run whose         *)
(* transcribe call threw has issued the transcribe call alone, a run whose *)
(* polish call threw has issued no summarize call, and both are finished.  *)
(***************************************************************************)
\* the step in which run k issues the call of a stage
Issues(k, stage) == runs[k].pc # stage /\ runs'[k].pc = stage

IssuedInOrder(k) ==
    /\ runs[k].calls \subseteq runs'[k].calls
    /\ Issues(k, "transcribing")
          => (/\ runs[k].pc = "reading"
              /\ runs[k].calls = {}
              /\ runs'[k].calls = {"transcribe"})
    /\ Issues(k, "polishing")
          => (/\ runs[k].pc = "transcribing"
              /\ runs'[k].transcribed = "text"
              /\ runs[k].calls = {"transcribe"}
              /\ runs'[k].calls = {"transcribe", "polish"})
    /\ Issues(k, "summarizing")
          => (/\ runs[k].pc = "polishing"
              /\ runs'[k].polished = "text"
              /\ runs[k].calls = {"transcribe", "polish"}
              /\ runs'[k].calls = {"transcribe", "polish", "summarize"})
    /\ runs'[k].calls # runs[k].calls
          => (Issues(k, "transcribing") \/ Issues(k, "polishing") \/ Issues(k, "summarizing"))

FailedStageEndsRun ==
    \A k \in 1..Len(runs) :
        /\ runs[k].transcribed = "throw"
              => (runs[k].pc = "done" /\ runs[k].calls = {"transcribe"})
        /\ runs[k].polished = "throw"
              => (runs[k].pc = "done" /\ runs[k].calls = {"transcribe", "polish"})
        /\ runs[k].pc = "polishing" => runs[k].transcribed = "text"
        /\ runs[k].pc = "summarizing" => runs[k].polished = "text"

C27_StagesInOrder ==
    /\ []FailedStageEndsRun
    /\ [][\A k \in 1..Len(runs) : IssuedInOrder(k)]_vars

C27_Witness ==
    \E k \in 1..Len(runs) :
        /\ runs[k].pc = "done"
        /\ runs[k].calls = {"transcribe", "polish", "summarize"}
        /\ runs[k].transcribed = "text"
        /\ runs[k].polished = "text"
        /\ runs[k].summarized = "text"

(***************************************************************************)
(* C29: a new-note action or a new recording started while a stage call is *)
(* in flight leaves every pipeline run as it is: the call stays in flight  *)
(* and the run goes on from where it was.  What the run delivers later is  *)
(* written to the note that is current then: a step of a run changes       *)
(* neither the stored history, which holds the note the new-note action    *)
(* committed, nor the id of the current note.                              *)
(***************************************************************************)
NewNoteOrNewRecording ==
    \/ OpStep("createNewNote")
    \/ Len(captures') = Len(captures) + 1

RunsGoOn == \A k \in 1..Len(runs) : runs'[k] = runs[k]

LateResultsGoToCurrentNote ==
    PipelineStep
       => (/\ voiceNotesHistory' = voiceNotesHistory
           /\ currentNote'.id = currentNote.id)

C29_RunSurvivesNewNote ==
    [][(NewNoteOrNewRecording => RunsGoOn) /\ LateResultsGoToCurrentNote]_vars

\* createNewNote committed the note with the transcription while the polish
\* call was in flight; the polish result went to the fresh note, the
\* committed note has none
C29_Witness ==
    \E k \in 1..Len(runs) :
        /\ lastOp.op = "createNewNote"
        /\ lastOp.dirty
        /\ runs[k].pc = "done"
        /\ runs[k].polished = "text"
        /\ currentNote.rawTranscription = <<>>
        /\ currentNote.polishedNoteMarkdown = runs[k].polishedMarkdown
        /\ findIndex(history, lastOp.id) > 0
        /\ history[findIndex(history, lastOp.id)].rawTranscription
              = runs[k].transcriptionText
        /\ history[findIndex(history, lastOp.id)].polishedNoteMarkdown = <<>>

(***************************************************************************)
(* C30, as claimed: when a stage of a run has failed, the status the       *)
(* finished run leaves is the failure message of that stage; after a       *)
(* summarize call that threw or returned the empty text it reports the     *)
(* failed summarize.                                                       *)
(***************************************************************************)
SummarizeFailureStatuses == {SummaryEmptyStatus, SummaryErrorStatus}

C30_FailureStatusStays ==
    [][\A k \in 1..Len(runs) :
          /\ Threw(k, "transcribing", "transcribed")
                => recordingStatus' =
                      Status("Fehler beim Abrufen der Transkription. Bitte erneut versuchen.")
          /\ Threw(k, "polishing", "polished")
                => recordingStatus' =
                      Status("Fehler beim Ueberarbeiten der Notiz. Bitte erneut versuchen.")
          /\ SummarizeFailedStep(k) => recordingStatus' \in SummarizeFailureStatuses]_vars

(***************************************************************************)
(* C31, as claimed: a microphone request of a startRecording call that     *)
(* fails with a device-not-found or device-busy error is followed by no    *)
(* further microphone request of that call.                                *)
(***************************************************************************)
DeviceErrors == {"NotFoundError", "NotReadableError"}

\* the first request of call k fails with a device error
FirstRequestFailsOnDevice(k) ==
    /\ captures[k].pc = "gum1"
    /\ captures'[k].pc # "started"
    /\ captures'[k].caught \in DeviceErrors

\* the retry of call k fails with a device error
RetryFailsOnDevice(k) ==
    /\ captures[k].pc = "gum2"
    /\ captures'[k] # captures[k]
    /\ captures'[k].pc # "started"
    /\ captures'[k].caught \in DeviceErrors

RequestPending(capture) == capture.pc \in {"gum1", "gum2"}

C31_NoRequestAfterDeviceError ==
    [][\A k \in 1..Len(captures) :
          (FirstRequestFailsOnDevice(k) \/ RetryFailsOnDevice(k))
             => ~RequestPending(captures'[k])]_vars

(***************************************************************************)
(* C31, amended: a first request that fails with a device-not-found or     *)
(* device-busy error is followed by exactly one further request, the retry *)
(* with the processing constraints off; a retry that fails with such an    *)
(* error ends the call with that error's message, and a call that has      *)
(* ended this way issues no request any more.                              *)
(***************************************************************************)
DeviceErrorRetriedOnce(k) ==
    FirstRequestFailsOnDevice(k)
       => captures' = [getUserMedia(captures, k, ProcessingOff)
                          EXCEPT ![k].caught = captures'[k].caught]

DeviceErrorOfRetryIsTerminal(k) ==
    /\ RetryFailsOnDevice(k)
          => /\ captures'[k].pc = "failed"
             /\ ~isRecording'
             /\ recordingStatus' = startErrorStatus(captures'[k].caught)
    /\ captures[k].pc = "failed" => captures'[k].pc = "failed"

C31_DeviceErrorTerminalAfterRetry ==
    [][\A k \in 1..Len(captures) :
          DeviceErrorRetriedOnce(k) /\ DeviceErrorOfRetryIsTerminal(k)]_vars

\* a call whose first request found no microphone and whose retry is pending
C31_Witness ==
    \E k \in 1..Len(captures) :
        /\ captures[k].pc = "gum2"
        /\ captures[k].caught = "NotFoundError"

\* ... and a call whose retry found the microphone busy
C31_RetryFailed ==
    \E k \in 1..Len(captures) :
        /\ captures[k].pc = "failed"
        /\ recordingStatus = startErrorStatus("NotReadableError")

(***************************************************************************)
(* C32, as claimed: releasing the capture's resources is idempotent: a     *)
(* release (stopLiveDisplay and the release of the stream, as run by the   *)
(* new-note action and by a stop notification) that finds everything       *)
(* released already changes no resource, calls close() on no context and   *)
(* stop() on no track; and in every reachable state close() has been       *)
(* called at most once on the analysis context of a capture and stop() at  *)
(* most once on the tracks of its stream.                                  *)
(***************************************************************************)
ReleasedAll == audioContext = 0 /\ stream = 0 /\ LoopsCancelled

Releases == OpStep("createNewNote") \/ \E k \in 1..Len(captures) : StopNotified(k)

\* what the platform holds of capture k
Resources(capture) ==
    <<capture.track, capture.trackStops, capture.context, capture.closeCalls>>

SecondReleaseChangesNothing ==
    (ReleasedAll /\ Releases)
       => /\ ReleasedAll'
          /\ \A k \in 1..Len(captures) : Resources(captures'[k]) = Resources(captures[k])

ClosedAtMostOnce == \A k \in 1..Len(captures) : captures[k].closeCalls <= 1

StoppedAtMostOnce == \A k \in 1..Len(captures) : captures[k].trackStops <= 1

C32_ReleaseIdempotent ==
    [](ClosedAtMostOnce /\ StoppedAtMostOnce) /\ [][SecondReleaseChangesNothing]_vars

\* the part of C32 that holds
C32_SecondReleaseChangesNothing ==
    []StoppedAtMostOnce /\ [][SecondReleaseChangesNothing]_vars

(***************************************************************************)
(* C33: updateNoteTitle(id, title), as called by the title edit of a       *)
(* history entry and by the blur of the editor title: with an id that is   *)
(* not in the history the stored value is left as it is, not written; with *)
(* an id that is in the history the first entry of that id gets the title, *)
(* and the length, the order and every other field of every entry are as   *)
(* before.                                                                 *)
(***************************************************************************)
TitleUpdate == OpStep("saveEdit") \/ OpStep("editorTitleBlur")

\* entry j of the history is what it was, but for the title of entry i
OnlyTitleOf(i, before, after) ==
    /\ Len(after) = Len(before)
    /\ \A j \in 1..Len(before) :
          after[j] = [before[j] EXCEPT !.title = IF j = i THEN after[j].title ELSE @]

TitleUpdateFrame ==
    LET before == history
        after == historyAfter
        noteIndex == findIndex(before, lastOp'.id)
    IN IF noteIndex = 0
       THEN voiceNotesHistory' = voiceNotesHistory
       ELSE /\ OnlyTitleOf(noteIndex, before, after)
            /\ lastOp'.op = "editorTitleBlur" => after[noteIndex].title = editorTitle'
            /\ after[noteIndex].title \in TypedTitles \cup {UnnamedNote}

C33_UpdateNoteTitleFrame == [][TitleUpdate => TitleUpdateFrame]_vars

\* the last entry of a history of several notes was retitled while another
\* note was the current one
C33_Witness ==
    /\ lastOp.op = "saveEdit"
    /\ ~lastOp.raised
    /\ Len(history) > 1
    /\ lastOp.id # currentNote.id
    /\ findIndex(history, lastOp.id) = Len(history)
    /\ history[Len(history)].title \in TypedTitles
    /\ history[1].title \notin TypedTitles

\* a title edit of an entry that is no longer stored, on a missing history
C33_AbsentId ==
    /\ lastOp.op = "saveEdit"
    /\ lastOp.id = 0
    /\ voiceNotesHistory.kind = "missing"

(***************************************************************************)
(* C34: in every reachable state the current note's totalTokens equals     *)
(* currentSessionTokens, whatever the interleaving of the answers of the   *)
(* pipeline stages with createNewNote and loadNoteFromHistory.             *)
(***************************************************************************)
C34_NoteTokensAreSessionTokens == currentNote.totalTokens = currentSessionTokens

\* a note of the history was loaded while a capture's pipeline was running;
\* the stages that answered afterwards added to the loaded note's count
C34_Witness ==
    \E k \in 1..Len(runs) :
        /\ lastOp.op = "loadNote"
        /\ ~lastOp.raised
        /\ runs[k].pc = "done"
        /\ runs[k].summarized = "text"
        /\ currentNote.id = lastOp.id
        /\ currentSessionTokens > OldNote(1).totalTokens
        /\ currentNote.totalTokens = currentSessionTokens

(***************************************************************************)
(* C35, as claimed: whenever isRecording is true a device stream is held   *)
(* and a recorder exists (stream and mediaRecorder are not null), whatever *)
(* the interleaving of presses of the record button, new-note actions,     *)
(* answers of the microphone requests and late stop notifications of an    *)
(* earlier recorder.                                                       *)
(***************************************************************************)
C35_RecordingHoldsStream == isRecording => (stream # 0 /\ mediaRecorder # 0)

(***************************************************************************)
(* C36, as claimed: the audio handed to the pipeline by the stop           *)
(* notification of a capture's recorder consists of exactly the chunks     *)
(* that recorder delivered, in the order of their arrival: no chunk of     *)
(* another capture is in it, and no step before the notification takes a   *)
(* delivered chunk out of the buffer, also when a new startRecording is    *)
(* called before the earlier recorder's data and stop notification have    *)
(* arrived.                                                                *)
(***************************************************************************)
ChunksOf(k, chunks) == SelectSeq(chunks, LAMBDA chunk : chunk = k)

\* the stop notification of recorder k hands the buffer to the pipeline
HandedOver(k) == StopNotified(k) /\ runs'[k].pc = "reading"

OnlyOwnChunksHandedOver ==
    \A k \in 1..Len(captures) : HandedOver(k) => runs'[k].blob = ChunksOf(k, audioChunks)

\* a chunk recorder k has delivered stays buffered until k's stop notification
NoChunkDropped ==
    \A k \in 1..Len(captures) :
        captures[k].recorder = "stopping"
           => IF StopNotified(k)
              THEN ChunksOf(k, audioChunks) # <<>> => HandedOver(k)
              ELSE ChunksOf(k, audioChunks') = ChunksOf(k, audioChunks)

C36_ExactlyOwnChunks == [][OnlyOwnChunksHandedOver /\ NoChunkDropped]_vars

(***************************************************************************)
(* C37: the step in which the call of a stage throws leaves                *)
(* currentSessionTokens and the current note's totalTokens as they were;   *)
(* the step in which the call returns, with a text or with the empty text, *)
(* adds the estimate of the request and the estimate of the response to    *)
(* both, which is more than nothing also for the empty text.               *)
(***************************************************************************)
StageThrows(k) ==
    \/ Threw(k, "transcribing", "transcribed")
    \/ Threw(k, "polishing", "polished")
    \/ Threw(k, "summarizing", "summarized")

StageReturns(k) ==
    \/ Returned(k, "transcribing", "transcribed")
    \/ Returned(k, "polishing", "polished")
    \/ Returned(k, "summarizing", "summarized")

\* the request text and the response text of the call of run k that ends in
\* the step
RequestOf(k) ==
    IF runs[k].pc = "transcribing" THEN TranscribeInstruction
    ELSE IF runs[k].pc = "polishing" THEN polishPrompt(runs[k].transcriptionText)
    ELSE runs[k].prompt

ResponseOf(k) ==
    IF runs[k].pc = "transcribing" THEN runs'[k].transcriptionText
    ELSE IF runs[k].pc = "polishing" THEN runs'[k].polishedMarkdown
    ELSE SummaryResponse(k)

Estimate(text) == CeilOver075(SplitLength(text))

ThrowAddsNothing(k) ==
    StageThrows(k)
       => /\ currentSessionTokens' = currentSessionTokens
          /\ currentNote'.totalTokens = currentNote.totalTokens

ReturnAddsEstimates(k) ==
    StageReturns(k)
       => /\ currentSessionTokens' =
                currentSessionTokens + Estimate(RequestOf(k)) + Estimate(ResponseOf(k))
          /\ currentNote'.totalTokens = currentSessionTokens'
          /\ currentSessionTokens' > currentSessionTokens + Estimate(RequestOf(k))

C37_FailedStageCountsNothing ==
    [][\A k \in 1..Len(runs) : ThrowAddsNothing(k) /\ ReturnAddsEstimates(k)]_vars

\* a run whose transcribe call returned a text and whose polish call threw:
\* the counter holds the two estimates of the transcribe call and no more
C37_Witness ==
    \E k \in 1..Len(runs) :
        /\ runs[k].pc = "done"
        /\ runs[k].transcribed = "text"
        /\ runs[k].polished = "throw"
        /\ ops = 0
        /\ currentSessionTokens =
              Estimate(TranscribeInstruction) + Estimate(runs[k].transcriptionText)
        /\ currentNote.totalTokens = currentSessionTokens

\* a run whose transcribe call returned the empty text: the counter holds the
\* estimate of the request and the estimate of the empty text
C37_EmptyTextCounted ==
    \E k \in 1..Len(runs) :
        /\ runs[k].pc = "done"
        /\ runs[k].transcribed = "empty"
        /\ ops = 0
        /\ currentSessionTokens = Estimate(TranscribeInstruction) + Estimate(<<>>)
        /\ Estimate(<<>>) > 0

(***************************************************************************)
(* C38, as claimed: when the FileReader and every call to the generative   *)
(* service are answered in the end, every pipeline run that a stop         *)
(* notification started on buffered audio finishes in the end; a run only  *)
(* moves forward through its stages (none is retried), issues at most      *)
(* three calls, ends with a status message in the step in which one of its *)
(* calls throws, and in the step in which it finishes isRecording is false *)
(* and a status message is set.                                            *)
(***************************************************************************)
Rank(pc) ==
    CASE pc = "none" -> 0
      [] pc = "reading" -> 1
      [] pc = "transcribing" -> 2
      [] pc = "polishing" -> 3
      [] pc = "summarizing" -> 4
      [] pc = "done" -> 5

Started(k) == k <= Len(runs) /\ runs[k].pc = "reading"
Finished(k) == k <= Len(runs) /\ runs[k].pc = "done"

RunsFinish == \A k \in 1..MaxStarts : Started(k) ~> Finished(k)

OnlyForward ==
    \A k \in 1..Len(runs) :
        /\ runs'[k].pc # runs[k].pc => Rank(runs'[k].pc) > Rank(runs[k].pc)
        /\ Cardinality(runs'[k].calls) <= 3

ThrowEndsRunWithStatus ==
    \A k \in 1..Len(runs) :
        StageThrows(k) => runs'[k].pc = "done" /\ recordingStatus'.msg # ""

Finishes(k) == runs[k].pc \notin {"none", "done"} /\ runs'[k].pc = "done"

FinishesWithStatus ==
    \A k \in 1..Len(runs) : Finishes(k) => recordingStatus'.msg # ""

FinishesNotRecording ==
    \A k \in 1..Len(runs) : Finishes(k) => ~isRecording'

C38_RunFinishes ==
    /\ RunsFinish
    /\ [][OnlyForward /\ ThrowEndsRunWithStatus /\ FinishesWithStatus
             /\ FinishesNotRecording]_vars

(***************************************************************************)
(* C38, amended: as claimed, but for the controller: no step of the run    *)
(* changes isRecording, which is when the run finishes what the presses of *)
(* the record button and the answers of the microphone requests have made  *)
(* it meanwhile, true when another capture is recording by then.           *)
(***************************************************************************)
RunLeavesRecordingAlone ==
    \A k \in 1..Len(runs) :
        (runs[k].pc # "none" /\ runs'[k].pc # runs[k].pc) => isRecording' = isRecording

C38_RunFinishesWithStatus ==
    /\ RunsFinish
    /\ [][OnlyForward /\ ThrowEndsRunWithStatus /\ FinishesWithStatus
             /\ RunLeavesRecordingAlone]_vars

\* a run whose three calls returned, finished while the next capture was
\* recording
C38_Witness ==
    \E k \in 1..Len(runs) :
        /\ runs[k].pc = "done"
        /\ runs[k].calls = {"transcribe", "polish", "summarize"}
        /\ runs[k].summarized = "text"
        /\ isRecording
        /\ mediaRecorder # k
        /\ captures[mediaRecorder].recorder = "recording"
        /\ recordingStatus = SummaryDoneStatus

(***************************************************************************)
(* C39: deleteNote(id), the confirmation accepted, for an id that is in    *)
(* the history and is not the current note's id removes the first entry of *)
(* that id and nothing else from the history, the other entries keeping    *)
(* their order and content, and leaves the current note, currentSummary,   *)
(* currentSessionTokens, the capture controller and the pipeline runs as   *)
(* they were; deleteNote for an id that is not in the history, and         *)
(* deleteNote with the confirmation declined, change nothing at all.       *)
(***************************************************************************)
\* after is before without its entry i
WithoutEntry(i, before, after) ==
    /\ Len(after) = Len(before) - 1
    /\ \A j \in 1..Len(after) : after[j] = before[IF j < i THEN j ELSE j + 1]

NothingChanged ==
    UNCHANGED <<voiceNotesHistory, session, recordingStatus, now, controller, runs>>

DeleteFrame ==
    LET before == history
        noteIndex == findIndex(before, lastOp'.id)
    IN IF noteIndex = 0
       THEN NothingChanged
       ELSE lastOp'.id # currentNote.id
               => /\ WithoutEntry(noteIndex, before, historyAfter)
                  /\ UNCHANGED <<session, controller, runs>>

C39_DeleteNoteFrame ==
    [][/\ OpStep("deleteNote") => DeleteFrame
       /\ OpStep("deleteNoteDeclined") => NothingChanged]_vars

\* the first entry of a stored history was deleted while another note, one
\* with content, was the current one and a capture was recording
C39_Witness ==
    /\ lastOp.op = "deleteNote"
    /\ ~lastOp.raised
    /\ lastOp.id # 0
    /\ lastOp.id # currentNote.id
    /\ Len(history) = MaxOldNotes - 1
    /\ findIndex(history, lastOp.id) = 0
    /\ HoldsContent(currentNote)
    /\ isRecording

\* the confirmation was declined on a stored history
C39_Declined ==
    /\ lastOp.op = "deleteNoteDeclined"
    /\ Len(history) = MaxOldNotes

(***************************************************************************)
(* C40: loadNote(id) leaves the capture controller and the pipeline runs   *)
(* as they were: a capture in progress goes on recording and the buffered  *)
(* chunks stay buffered; the results of the stages that answer afterwards  *)
(* are written to the note that is current then, the loaded one; and       *)
(* loadNote with an id that is not in the history changes neither the      *)
(* current note, the session state, the history nor the status.            *)
(***************************************************************************)
LoadLeavesCapture == OpStep("loadNote") => UNCHANGED <<controller, runs>>

LoadOfAbsentId ==
    (OpStep("loadNote") /\ findIndex(history, lastOp'.id) = 0)
       => UNCHANGED <<voiceNotesHistory, session, recordingStatus>>

LoadOfStoredId ==
    (OpStep("loadNote") /\ findIndex(history, lastOp'.id) > 0)
       => /\ currentNote' = history[findIndex(history, lastOp'.id)]
          /\ currentNote'.id = lastOp'.id

ResultsGoToCurrentNote ==
    \A k \in 1..Len(runs) :
        /\ Succeeded(k, "transcribing", "transcribed")
              => currentNote' = [currentNote EXCEPT
                                    !.rawTranscription = runs'[k].transcriptionText,
                                    !.polishedNoteMarkdown = currentNote'.polishedNoteMarkdown,
                                    !.polishedNoteHtml = currentNote'.polishedNoteHtml,
                                    !.totalTokens = currentSessionTokens']
        /\ Succeeded(k, "polishing", "polished")
              => currentNote' = [currentNote EXCEPT
                                    !.polishedNoteMarkdown = runs'[k].polishedMarkdown,
                                    !.polishedNoteHtml = currentNote'.polishedNoteHtml,
                                    !.totalTokens = currentSessionTokens']

C40_LoadLeavesCapture ==
    [][LoadLeavesCapture /\ LoadOfAbsentId /\ LoadOfStoredId /\ ResultsGoToCurrentNote]_vars

\* a stored note was loaded while capture k was recording; the capture was
\* stopped afterwards and its transcription and polished text are in the
\* loaded note
C40_Witness ==
    \E k \in 1..Len(runs) :
        /\ lastOp.op = "loadNote"
        /\ ~lastOp.raised
        /\ lastOp.prev = "none"
        /\ ops = 1
        /\ currentNote.id = lastOp.id
        /\ currentNote.timestamp = OldNote(lastOp.id).timestamp
        /\ runs[k].pc = "done"
        /\ runs[k].polished = "text"
        /\ currentNote.rawTranscription = runs[k].transcriptionText
        /\ currentNote.polishedNoteMarkdown = runs[k].polishedMarkdown
        /\ currentNote.rawTranscription # OldNote(lastOp.id).rawTranscription

=============================================================================
